---- MODULE Spec2Model ----
(***************************************************************************)
(* A model of r3labs/diff: the Diff engine (type-directed recursive        *)
(* comparison producing a Changelog) and the Patch engine (replay of a     *)
(* Changelog onto a target, one PatchLogEntry per Change).                  *)
(*                                                                         *)
(* Go values are records tagged by their reflect.Kind in field k:          *)
(*   [k |-> "int", i], [k |-> "string", s], [k |-> "bool", b],             *)
(*   [k |-> "float"]                    (a kind diff() has no case for)    *)
(*   [k |-> "slice", ek, e]             e: sequence of element values      *)
(*   [k |-> "map", ek, isnil, m]        m: MapKeys -> value or Absent      *)
(*                                      (ek names the element type)        *)
(*   [k |-> "ptr", p]                   p: address in mem, 0 is nil        *)
(*   [k |-> "struct", t, f]             f: sequence of fields              *)
(*        field = [n: Go name, tag: tag name, o: tag options, v: value]    *)
(*   [k |-> "invalid"]                  the zero reflect.Value             *)
(*   [k |-> "nil"]                      the nil interface{}                *)
(***************************************************************************)
EXTENDS Integers, Sequences, FiniteSets, TLC

\* ---------------------------------------------------------------- bounds
MaxVal == 2      \* integers 1..MaxVal
MaxLen == 2      \* longest generated sequence
MaxWrap == 3     \* deepest nesting of records around a sequence
NumNodes == 2    \* addresses of the pointer graphs
MaxStack == 16   \* call depth at which the goroutine stack is exhausted
MaxCalls == 2    \* Diff calls made on one Differ

\* ------------------------------------------------------- change kinds
CREATE == "create"
UPDATE == "update"
DELETE == "delete"

ErrNil == "nil"
ErrTypeMismatch == "types do not match"
ErrUnsupported == "unsupported type"
ErrInvalidChangeType == "change type must be one of 'create' or 'delete'"
ErrStackOverflow == "fatal: stack overflow"

\* ------------------------------------------------------- value builders
Nil == [k |-> "nil"]
Invalid == [k |-> "invalid"]
IntV(i) == [k |-> "int", i |-> i]
StrV(s) == [k |-> "string", s |-> s]
BoolV(b) == [k |-> "bool", b |-> b]
FloatV == [k |-> "float"]
SliceV(ek, e) == [k |-> "slice", ek |-> ek, e |-> e]
Absent == [k |-> "absent"]
MapKeys == {"x", "y"}
MapV(ek, m) == [k |-> "map", ek |-> ek, isnil |-> FALSE, m |-> m]
NilMap(ek) == [k |-> "map", ek |-> ek, isnil |-> TRUE, m |-> [key \in MapKeys |-> Absent]]
PtrV(p) == [k |-> "ptr", p |-> p]
Field(n, tag, o, v) == [n |-> n, tag |-> tag, o |-> o, v |-> v]
StructV(t, f) == [k |-> "struct", t |-> t, f |-> f]

\* reflect.DeepEqual on two interface values
DeepEqual(x, y) == x = y

\* strconv.Itoa / strconv.Atoi on the indexes a path can hold
DigitStr == <<"0", "1", "2", "3", "4", "5", "6", "7", "8", "9">>
Itoa(i) == DigitStr[i + 1]
AtoiOk(s) == \E i \in 1..Len(DigitStr) : DigitStr[i] = s
Atoi(s) == (CHOOSE i \in 1..Len(DigitStr) : DigitStr[i] = s) - 1

\* ------------------------------------------------ []string and append
\* A []string is a view [arr, len] on a backing array of the heap; arr = 0
\* is the empty slice literal, which has no backing array.  The length of
\* heap[arr] is the capacity of the array.
EmptyPath == [arr |-> 0, len |-> 0]

Cap(heap, p) == IF p.arr = 0 THEN 0 ELSE Len(heap[p.arr])

Resolve(heap, p) == IF p.arr = 0 THEN <<>> ELSE SubSeq(heap[p.arr], 1, p.len)

\* runtime growslice for one more element: 0 -> 1, then doubling
GrowCap(oldcap) == IF oldcap = 0 THEN 1 ELSE 2 * oldcap

\* append(path, s): writes in place when the array has room, else copies
\* into a new array.  Returns the new heap and the resulting view.
GoAppend(heap, p, s) ==
    IF p.len < Cap(heap, p)
    THEN [heap |-> [heap EXCEPT ![p.arr][p.len + 1] = s],
          path |-> [arr |-> p.arr, len |-> p.len + 1]]
    ELSE LET newcap == GrowCap(Cap(heap, p))
             data == Resolve(heap, p) \o <<s>> \o [j \in 1..(newcap - p.len - 1) |-> ""]
         IN [heap |-> Append(heap, data),
             path |-> [arr |-> Len(heap) + 1, len |-> p.len + 1]]

\* ----------------------------------------------------------- tag access
tagName(field) == field.tag

\* parts[1] == "identifier": only the first option of the tag is looked at
identifierAt(v, i) == Len(v.f[i].o) >= 1 /\ v.f[i].o[1] = "identifier"

hasIdentifier(v) == \E i \in 1..Len(v.f) : identifierAt(v, i)

identifier(v) ==
    LET i == CHOOSE j \in 1..Len(v.f) :
                 identifierAt(v, j) /\ \A h \in 1..(j - 1) : ~identifierAt(v, h)
    IN v.f[i].v

hasTagOption(field, opt) == \E j \in 1..Len(field.o) : field.o[j] = opt

idstring(v) ==
    IF v.k = "string" THEN v.s
    ELSE IF v.k = "int" THEN Itoa(v.i)
    ELSE ""

FieldByName(b, name) ==
    IF \E i \in 1..Len(b.f) : b.f[i].n = name
    THEN b.f[CHOOSE i \in 1..Len(b.f) : b.f[i].n = name].v
    ELSE Invalid

\* reflect.New(t).Elem() / reflect.Zero(t) of the type of v
RECURSIVE Zero(_)
Zero(v) ==
    CASE v.k = "int" -> IntV(0)
      [] v.k = "string" -> StrV("")
      [] v.k = "bool" -> BoolV(FALSE)
      [] v.k = "slice" -> SliceV(v.ek, <<>>)
      [] v.k = "map" -> NilMap(v.ek)
      [] v.k = "ptr" -> PtrV(0)
      [] v.k = "struct" ->
           StructV(v.t, [i \in 1..Len(v.f) |-> [v.f[i] EXCEPT !.v = Zero(v.f[i].v)]])
      [] OTHER -> v

\* ------------------------------------------------------------ Changelog
\* The state of one Diff call: the Changelog cl, the heap of path arrays,
\* the error, the Differ's pointersSeen, and the inputs that stay fixed
\* (mem: the objects pointers refer to, ord: the order in which this run
\* iterates over Go maps).  trace lists the pairs handed to diff, in order:
\* the path, the two kinds and, for pointers, the two addresses (0 for nil).
NewPointersSeen == {}

NewState(mem, ord) ==
    [cl |-> <<>>, heap |-> <<>>, err |-> ErrNil, pointersSeen |-> NewPointersSeen,
     trace |-> <<>>, mem |-> mem, ord |-> ord]

\* Change.Path keeps the view it was given: ref.  p0 is what that view read
\* when the Change was appended.
add(st, t, path, from, to) ==
    [st EXCEPT !.cl = Append(@, [type |-> t, ref |-> path,
                                 p0 |-> Resolve(st.heap, path),
                                 from |-> from, to |-> to])]

swapChange(t, c) ==
    IF t = CREATE THEN [c EXCEPT !.type = t, !.from = Nil, !.to = c.to]
    ELSE IF t = DELETE THEN [c EXCEPT !.type = t, !.from = c.to, !.to = Nil]
    ELSE [c EXCEPT !.type = t, !.from = Nil, !.to = Nil]

\* ------------------------------------------------------ ComparativeList
\* A sequence of entries [key, A, B] in order of first insertion.
NewComparativeList == <<>>

HasKey(c, key) == \E i \in 1..Len(c) : c[i].key = key
KeyIndex(c, key) == CHOOSE i \in 1..Len(c) : c[i].key = key

addA(c, key, v) ==
    IF HasKey(c, key) THEN [c EXCEPT ![KeyIndex(c, key)].A = v]
    ELSE Append(c, [key |-> key, A |-> v, B |-> Absent])

\* addB as a copy of addA with the field left unrenamed: the right value
\* lands in A
addBIntoA(c, key, v) ==
    IF HasKey(c, key) THEN [c EXCEPT ![KeyIndex(c, key)].A = v]
    ELSE Append(c, [key |-> key, A |-> v, B |-> Absent])

addB(c, key, v) ==
    IF HasKey(c, key) THEN [c EXCEPT ![KeyIndex(c, key)].B = v]
    ELSE Append(c, [key |-> key, A |-> Absent, B |-> v])

\* for k, v := range *c : the entries in the order this run iterates maps
RangeMap(ord, c) ==
    LET ks == SelectSeq(ord, LAMBDA key : HasKey(c, key))
    IN [j \in 1..Len(ks) |-> c[KeyIndex(c, ks[j])]]

\* v.MapKeys(): the keys present, in the order this run iterates maps
MapKeysOf(ord, v) == SelectSeq(ord, LAMBDA key : v.m[key.s] # Absent)

RECURSIVE getFinalValue(_, _)
getFinalValue(mem, t) ==
    IF t.k = "ptr"
    THEN IF t.p = 0 THEN Invalid ELSE getFinalValue(mem, mem[t.p])
    ELSE t

comparativeSide(mem, s) ==
    /\ Len(s.e) > 0
    /\ LET ak == getFinalValue(mem, s.e[1])
       IN ak.k = "struct" /\ hasIdentifier(ak)

comparative(mem, a, b) == comparativeSide(mem, a) \/ comparativeSide(mem, b)

\* sliceHas with its loop started at 1: the first element is never compared
sliceHasFromSecond(s, v) == \E i \in 2..Len(s.e) : DeepEqual(s.e[i], v)

sliceHas(s, v) == \E i \in 1..Len(s.e) : DeepEqual(s.e[i], v)

\* ---------------------------------------------------------- diff engine
RECURSIVE diff(_, _, _, _, _)
RECURSIVE diffStruct(_, _, _, _, _)
RECURSIVE diffStructFields(_, _, _, _, _, _)
RECURSIVE structValues(_, _, _, _, _)
RECURSIVE structValuesFields(_, _, _, _, _, _)
RECURSIVE diffSlice(_, _, _, _, _)
RECURSIVE diffSliceGenericA(_, _, _, _, _)
RECURSIVE diffSliceGenericB(_, _, _, _, _)
RECURSIVE diffSliceComparative(_, _, _, _, _)
RECURSIVE sliceAddA(_, _, _, _)
RECURSIVE sliceAddB(_, _, _, _)
RECURSIVE rangeComparative(_, _, _, _, _)
RECURSIVE diffMap(_, _, _, _, _)
RECURSIVE diffComparative(_, _, _, _, _)
RECURSIVE diffPtr(_, _, _, _, _)

diffString(st, path, a, b) ==
    IF a.k # b.k THEN [st EXCEPT !.err = ErrTypeMismatch]
    ELSE IF a.s # b.s THEN add(st, UPDATE, path, a, b)
    ELSE st

diffBool(st, path, a, b) ==
    IF a.k # b.k THEN [st EXCEPT !.err = ErrTypeMismatch]
    ELSE IF a.b # b.b THEN add(st, UPDATE, path, a, b)
    ELSE st

diffInt(st, path, a, b) ==
    IF a.k # b.k THEN [st EXCEPT !.err = ErrTypeMismatch]
    ELSE IF a.i # b.i THEN add(st, UPDATE, path, a, b)
    ELSE st

diff(st, path, a, b, depth) ==
    LET st1 == [st EXCEPT !.trace = Append(@, [path |-> Resolve(st.heap, path),
                                               a |-> a.k, b |-> b.k,
                                               pa |-> IF a.k = "ptr" THEN a.p ELSE 0,
                                               pb |-> IF b.k = "ptr" THEN b.p ELSE 0])]
    IN IF depth > MaxStack THEN [st1 EXCEPT !.err = ErrStackOverflow]
       ELSE IF a.k # b.k THEN [st1 EXCEPT !.err = ErrTypeMismatch]
       ELSE CASE a.k = "struct" -> diffStruct(st1, path, a, b, depth)
              [] a.k = "slice" -> diffSlice(st1, path, a, b, depth)
              [] a.k = "string" -> diffString(st1, path, a, b)
              [] a.k = "bool" -> diffBool(st1, path, a, b)
              [] a.k = "int" -> diffInt(st1, path, a, b)
              [] a.k = "map" -> diffMap(st1, path, a, b, depth)
              [] a.k = "ptr" -> diffPtr(st1, path, a, b, depth)
              [] OTHER -> [st1 EXCEPT !.err = ErrUnsupported]

\* diffStruct with the error of cl.diff dropped: the loop goes on to the
\* next field and returns nil
RECURSIVE diffStructFieldsDroppingErr(_, _, _, _, _, _)
diffStructFieldsDroppingErr(st, path, a, b, i, depth) ==
    IF i > Len(a.f) THEN st
    ELSE LET field == a.f[i]
             tname == tagName(field)
         IN IF tname = "-" \/ hasTagOption(field, "immutable")
            THEN diffStructFieldsDroppingErr(st, path, a, b, i + 1, depth)
            ELSE LET af == field.v
                     bf == FieldByName(b, field.n)
                     r == GoAppend(st.heap, path, tname)
                     st1 == diff([st EXCEPT !.heap = r.heap], r.path, af, bf, depth + 1)
                 IN diffStructFieldsDroppingErr([st1 EXCEPT !.err = ErrNil], path, a, b,
                                                i + 1, depth)

\* diffStruct without the test on the tag: every field is compared
RECURSIVE diffStructFieldsNoSkip(_, _, _, _, _, _)
diffStructFieldsNoSkip(st, path, a, b, i, depth) ==
    IF i > Len(a.f) THEN st
    ELSE LET field == a.f[i]
             tname == tagName(field)
             af == field.v
             bf == FieldByName(b, field.n)
             r == GoAppend(st.heap, path, tname)
             st1 == diff([st EXCEPT !.heap = r.heap], r.path, af, bf, depth + 1)
         IN IF st1.err # ErrNil THEN st1
            ELSE diffStructFieldsNoSkip(st1, path, a, b, i + 1, depth)

diffStructFields(st, path, a, b, i, depth) ==
    IF i > Len(a.f) THEN st
    ELSE LET field == a.f[i]
             tname == tagName(field)
         IN IF tname = "-" \/ hasTagOption(field, "immutable")
            THEN diffStructFields(st, path, a, b, i + 1, depth)
            ELSE LET af == field.v
                     bf == FieldByName(b, field.n)
                     r == GoAppend(st.heap, path, tname)
                     st1 == diff([st EXCEPT !.heap = r.heap], r.path, af, bf, depth + 1)
                 IN IF st1.err # ErrNil THEN st1
                    ELSE diffStructFields(st1, path, a, b, i + 1, depth)

diffStruct(st, path, a, b, depth) ==
    IF a.k = "invalid" THEN structValues(st, CREATE, path, b, depth)
    ELSE IF b.k = "invalid" THEN structValues(st, DELETE, path, a, depth)
    ELSE diffStructFields(st, path, a, b, 1, depth)

structValuesFields(st, path, a, x, i, depth) ==
    IF i > Len(a.f) THEN st
    ELSE LET field == a.f[i]
             tname == tagName(field)
         IN IF tname = "-"
            THEN structValuesFields(st, path, a, x, i + 1, depth)
            ELSE LET af == field.v
                     xf == FieldByName(x, field.n)
                     r == GoAppend(st.heap, path, tname)
                     st1 == diff([st EXCEPT !.heap = r.heap], r.path, xf, af, depth + 1)
                 IN IF st1.err # ErrNil THEN st1
                    ELSE structValuesFields(st1, path, a, x, i + 1, depth)

structValues(st, t, path, a0, depth) ==
    IF t # CREATE /\ t # DELETE THEN [st EXCEPT !.err = ErrInvalidChangeType]
    ELSE LET a == IF a0.k = "ptr"
                  THEN (IF a0.p = 0 THEN Invalid ELSE st.mem[a0.p])
                  ELSE a0
         IN IF a.k # "struct" THEN [st EXCEPT !.err = ErrTypeMismatch]
            ELSE LET st1 == structValuesFields(st, path, a, Zero(a), 1, depth)
                 IN IF st1.err # ErrNil THEN st1
                    ELSE [st1 EXCEPT !.cl = [j \in 1..Len(st1.cl) |->
                                               swapChange(t, st1.cl[j])]]

diffSliceGenericA(st, path, a, b, i) ==
    IF i > Len(a.e) THEN st
    ELSE LET ae == a.e[i]
             r == GoAppend(st.heap, path, Itoa(i - 1))
             st1 == [st EXCEPT !.heap = r.heap]
             st2 == IF ~sliceHas(b, ae) THEN add(st1, DELETE, r.path, ae, Nil) ELSE st1
         IN diffSliceGenericA(st2, path, a, b, i + 1)

diffSliceGenericB(st, path, a, b, i) ==
    IF i > Len(b.e) THEN st
    ELSE LET be == b.e[i]
             r == GoAppend(st.heap, path, Itoa(i - 1))
             st1 == [st EXCEPT !.heap = r.heap]
             st2 == IF ~sliceHas(a, be) THEN add(st1, CREATE, r.path, Nil, be) ELSE st1
         IN diffSliceGenericB(st2, path, a, b, i + 1)

diffSliceGeneric(st, path, a, b) ==
    diffSliceGenericB(diffSliceGenericA(st, path, a, b, 1), path, a, b, 1)

sliceAddA(mem, c, a, i) ==
    IF i > Len(a.e) THEN c
    ELSE LET ae == a.e[i]
             ak == getFinalValue(mem, ae)
         IN sliceAddA(mem, IF ak.k = "struct" /\ hasIdentifier(ak) THEN addA(c, identifier(ak), ae) ELSE c,
                      a, i + 1)

sliceAddB(mem, c, b, i) ==
    IF i > Len(b.e) THEN c
    ELSE LET be == b.e[i]
             bk == getFinalValue(mem, be)
         IN sliceAddB(mem, IF bk.k = "struct" /\ hasIdentifier(bk) THEN addB(c, identifier(bk), be) ELSE c,
                      b, i + 1)

\* the body shared by "for k, v := range *c" and "for _, k := range c.keys"
rangeComparative(st, path, entries, i, depth) ==
    IF i > Len(entries) THEN st
    ELSE LET v == entries[i]
             r == GoAppend(st.heap, path, idstring(v.key))
             st0 == [st EXCEPT !.heap = r.heap]
             st1 == IF v.A # Absent /\ v.B = Absent
                    THEN add(st0, DELETE, r.path, v.A, Nil) ELSE st0
             st2 == IF v.A = Absent /\ v.B # Absent
                    THEN add(st1, CREATE, r.path, Nil, v.B) ELSE st1
             st3 == IF v.A # Absent /\ v.B # Absent
                    THEN diff(st2, r.path, v.A, v.B, depth + 1) ELSE st2
         IN IF st3.err # ErrNil THEN st3
            ELSE rangeComparative(st3, path, entries, i + 1, depth)

diffSliceComparative(st, path, a, b, depth) ==
    LET c == sliceAddB(st.mem, sliceAddA(st.mem, NewComparativeList, a, 1), b, 1)
    IN rangeComparative(st, path, RangeMap(st.ord, c), 1, depth)

diffSlice(st, path, a, b, depth) ==
    IF a.k # b.k THEN [st EXCEPT !.err = ErrTypeMismatch]
    ELSE IF comparative(st.mem, a, b) THEN diffSliceComparative(st, path, a, b, depth)
    ELSE diffSliceGeneric(st, path, a, b)

diffComparative(st, path, c, i, depth) == rangeComparative(st, path, c, i, depth)

mapAddA(c, a, keys) ==
    LET F[i \in 0..Len(keys)] ==
            IF i = 0 THEN c ELSE addA(F[i - 1], keys[i], a.m[keys[i].s])
    IN F[Len(keys)]

mapAddB(c, b, keys) ==
    LET F[i \in 0..Len(keys)] ==
            IF i = 0 THEN c ELSE addB(F[i - 1], keys[i], b.m[keys[i].s])
    IN F[Len(keys)]

diffMap(st, path, a, b, depth) ==
    IF a.k # b.k THEN [st EXCEPT !.err = ErrTypeMismatch]
    ELSE LET c == mapAddB(mapAddA(NewComparativeList, a, MapKeysOf(st.ord, a)),
                          b, MapKeysOf(st.ord, b))
         IN diffComparative(st, path, c, 1, depth)

\* diffPtr without pointersSeen: every pair of non-nil pointers is followed
diffPtrUnguarded(st, path, a, b, depth) ==
    IF a.k # b.k
    THEN IF a.k = "invalid"
         THEN IF b.p # 0 THEN diff(st, path, Invalid, st.mem[b.p], depth + 1)
              ELSE add(st, CREATE, path, Nil, b)
         ELSE IF b.k = "invalid"
         THEN IF a.p # 0 THEN diff(st, path, st.mem[a.p], Invalid, depth + 1)
              ELSE add(st, DELETE, path, a, Nil)
         ELSE [st EXCEPT !.err = ErrTypeMismatch]
    ELSE IF a.p = 0 /\ b.p = 0 THEN st
    ELSE IF a.p = 0 THEN add(st, UPDATE, path, Nil, b)
    ELSE IF b.p = 0 THEN add(st, UPDATE, path, a, Nil)
    ELSE diff(st, path, st.mem[a.p], st.mem[b.p], depth + 1)

\* diffPtr marking the pair for the left address only
diffPtrOneSided(st, path, a, b, depth) ==
    IF a.k # b.k
    THEN IF a.k = "invalid"
         THEN IF b.p # 0 THEN diff(st, path, Invalid, st.mem[b.p], depth + 1)
              ELSE add(st, CREATE, path, Nil, b)
         ELSE IF b.k = "invalid"
         THEN IF a.p # 0 THEN diff(st, path, st.mem[a.p], Invalid, depth + 1)
              ELSE add(st, DELETE, path, a, Nil)
         ELSE [st EXCEPT !.err = ErrTypeMismatch]
    ELSE IF a.p = 0 /\ b.p = 0 THEN st
    ELSE IF a.p = 0 THEN add(st, UPDATE, path, Nil, b)
    ELSE IF b.p = 0 THEN add(st, UPDATE, path, a, Nil)
    ELSE LET aok == <<a.p, b.p>> \in st.pointersSeen
             bok == <<a.p, b.p>> \in st.pointersSeen
         IN IF aok \/ bok THEN st
            ELSE diff([st EXCEPT !.pointersSeen = @ \cup {<<a.p, b.p>>}],
                      path, st.mem[a.p], st.mem[b.p], depth + 1)

diffPtr(st, path, a, b, depth) ==
    IF a.k # b.k
    THEN IF a.k = "invalid"
         THEN IF b.p # 0 THEN diff(st, path, Invalid, st.mem[b.p], depth + 1)
              ELSE add(st, CREATE, path, Nil, b)
         ELSE IF b.k = "invalid"
         THEN IF a.p # 0 THEN diff(st, path, st.mem[a.p], Invalid, depth + 1)
              ELSE add(st, DELETE, path, a, Nil)
         ELSE [st EXCEPT !.err = ErrTypeMismatch]
    ELSE IF a.p = 0 /\ b.p = 0 THEN st
    ELSE IF a.p = 0 THEN add(st, UPDATE, path, Nil, b)
    ELSE IF b.p = 0 THEN add(st, UPDATE, path, a, Nil)
    ELSE LET aok == <<a.p, b.p>> \in st.pointersSeen
             bok == <<a.p, b.p>> \in st.pointersSeen
         IN IF aok \/ bok THEN st
            ELSE diff([st EXCEPT !.pointersSeen = @ \cup {<<a.p, b.p>>, <<b.p, a.p>>}],
                      path, st.mem[a.p], st.mem[b.p], depth + 1)

\* Diff(a, b): the Changelog with every path read through its view once the
\* call has returned, and the error.
Returned(st) ==
    [cl |-> [j \in 1..Len(st.cl) |->
               [type |-> st.cl[j].type, path |-> Resolve(st.heap, st.cl[j].ref),
                p0 |-> st.cl[j].p0, from |-> st.cl[j].from, to |-> st.cl[j].to]],
     err |-> st.err, trace |-> st.trace, pointersSeen |-> st.pointersSeen]

Diff(mem, ord, a, b) == Returned(diff(NewState(mem, ord), EmptyPath, a, b, 1))

\* --------------------------------------------------------------- Differ
\* A Differ: the option SliceOrdering and the Changelog buffer d.cl, with
\* the heap the paths of the buffer live in.
NewDiffer(sliceOrdering) == [SliceOrdering |-> sliceOrdering, cl |-> <<>>, heap |-> <<>>]

\* the ordered comparison stopping at the end of the shorter sequence
RECURSIVE diffSliceOrderedShort(_, _, _, _, _, _)
diffSliceOrderedShort(st, path, a, b, i, depth) ==
    IF i > Len(a.e) \/ i > Len(b.e) THEN st
    ELSE LET r == GoAppend(st.heap, path, Itoa(i - 1))
             st1 == diff([st EXCEPT !.heap = r.heap], r.path, a.e[i], b.e[i], depth + 1)
         IN IF st1.err # ErrNil THEN st1
            ELSE diffSliceOrderedShort(st1, path, a, b, i + 1, depth)

\* SliceOrdering(true): element i against element i up to the shorter
\* length, then the tail of the longer side
RECURSIVE diffSliceOrdered(_, _, _, _, _, _)
diffSliceOrdered(st, path, a, b, i, depth) ==
    IF i > Len(a.e) /\ i > Len(b.e) THEN st
    ELSE LET r == GoAppend(st.heap, path, Itoa(i - 1))
             st1 == IF i > Len(b.e)
                    THEN add([st EXCEPT !.heap = r.heap], DELETE, r.path, a.e[i], Nil)
                    ELSE IF i > Len(a.e)
                    THEN add([st EXCEPT !.heap = r.heap], CREATE, r.path, Nil, b.e[i])
                    ELSE diff([st EXCEPT !.heap = r.heap], r.path, a.e[i], b.e[i], depth + 1)
         IN IF st1.err # ErrNil THEN st1
            ELSE diffSliceOrdered(st1, path, a, b, i + 1, depth)

\* the buffer left as the last call filled it
KeepBuffer(d) == d

\* the buffer is reset at the start of every Diff call
ResetBuffer(d) == [d EXCEPT !.cl = <<>>]

\* the state in which d.Diff starts comparing
DifferState(d, mem, ord) == [NewState(mem, ord) EXCEPT !.cl = d.cl, !.heap = d.heap]

\* d.Diff(a, b) up to its return: the buffer, the heap and the error
DifferDiff(d, mem, ord, a, b) ==
    IF d.SliceOrdering /\ a.k = "slice" /\ b.k = "slice" /\ ~comparative(mem, a, b)
    THEN diffSliceOrdered(DifferState(ResetBuffer(d), mem, ord), EmptyPath, a, b, 1, 1)
    ELSE diff(DifferState(ResetBuffer(d), mem, ord), EmptyPath, a, b, 1)

\* --------------------------------------------------------------- Filter
\* regexp.MatchString(f, s) for the patterns used here: a literal segment
\* or the pattern that matches every segment
AnySegment == ".*"
MatchString(f, s) == f = AnySegment \/ f = s

RECURSIVE pathmatchFrom(_, _, _)
pathmatchFrom(filter, path, i) ==
    IF i > Len(filter) THEN TRUE
    ELSE IF Len(path) < i THEN FALSE
    ELSE IF ~MatchString(filter[i], path[i]) THEN FALSE
    ELSE pathmatchFrom(filter, path, i + 1)

pathmatch(filter, path) == pathmatchFrom(filter, path, 1)

RECURSIVE FilterFrom(_, _, _, _)
FilterFrom(changes, path, ncl, j) ==
    IF j > Len(changes) THEN ncl
    ELSE FilterFrom(changes, path,
                    IF pathmatch(path, changes[j].path) THEN Append(ncl, changes[j]) ELSE ncl,
                    j + 1)

\* Filter with its loop started at the second Change
FilterFromSecond(changes, path) == FilterFrom(changes, path, <<>>, 2)

Filter(changes, path) == FilterFrom(changes, path, <<>>, 1)

RECURSIVE FilterOutFrom(_, _, _, _)
FilterOutFrom(changes, path, ncl, j) ==
    IF j > Len(changes) THEN ncl
    ELSE FilterOutFrom(changes, path,
                       IF ~pathmatch(path, changes[j].path) THEN Append(ncl, changes[j]) ELSE ncl,
                       j + 1)

FilterOut(changes, path) == FilterOutFrom(changes, path, <<>>, 1)

\* ---------------------------------------------------------- StructValues
\* StructValues(t, path, s): structValues on a fresh Changelog; heap0 holds
\* the array of the path the caller passes
StructValues(t, heap0, path, mem, ord, s) ==
    Returned(structValues([NewState(mem, ord) EXCEPT !.heap = heap0], t, path, s, 1))

\* ---------------------------------------------------------- PatchFlags
OptionCreate == "OptionCreate"
OptionOmitUnequal == "OptionOmitUnequal"
FlagInvalidTarget == "FlagInvalidTarget"
FlagApplied == "FlagApplied"
FlagFailed == "FlagFailed"
FlagCreated == "FlagCreated"
FlagIgnored == "FlagIgnored"
FlagDeleted == "FlagDeleted"
FlagUpdated == "FlagUpdated"

ErrCannotSet == "cannot set values on target"
ErrInvalidIndex == "invalid index in path"
ErrIndexInvalid == "value index is invalid"
ErrNoSliceEntry == "Unable to find matching slice index entry"
ErrNoMatch == "target change doesn't match original"
ErrNilMapDelete == "target has nil map nothing to delete"
ErrNilMapCreate == "target has nil map and create not set"

\* ---------------------------------------------------------- ChangeValue
\* The cursor of one Change on the target tv: val is the value reached
\* from tv through the record fields loc; flags, err, index and key are
\* the fields of the Go struct (haskey: key is not the zero reflect.Value).
\* fault records that a run-time panic was recovered for this Change.
NewChangeValue ==
    [loc |-> <<>>, flags |-> {}, err |-> ErrNil, index |-> 0,
     haskey |-> FALSE, key |-> "", fault |-> FALSE]

RECURSIVE At(_, _)
At(tv, loc) == IF loc = <<>> THEN tv ELSE At(tv.f[Head(loc)].v, Tail(loc))

RECURSIVE Put(_, _, _)
Put(tv, loc, nv) ==
    IF loc = <<>> THEN nv
    ELSE [tv EXCEPT !.f[Head(loc)].v = Put(@, Tail(loc), nv)]

SetFlag(cv, flag) == [cv EXCEPT !.flags = @ \cup {flag}]
HasFlag(cv, flag) == flag \in cv.flags
AddError(cv, e) == [cv EXCEPT !.err = e]

\* the name of the static type of a value, as far as assignability goes
TypeName(v) == IF v.k = "struct" THEN v.t ELSE v.k

\* reflect.Value.Set(x) panics unless x is valid and assignable to the type
Assignable(x, cur) ==
    /\ x.k = cur.k
    /\ cur.k = "struct" => x.t = cur.t
    /\ cur.k \in {"slice", "map"} => x.ek = cur.ek

\* an outcome of a step on the target: the target, the cursor, and whether
\* the step panicked out of the operation (recovered by patch)
Outcome(tv, cv, panic) == [tv |-> tv, cv |-> cv, panic |-> panic]

\* ChangeValue.Set: recovers its own panic and flags the entry failed
Set(tv, cv, value) ==
    IF value.k \in {"nil", "invalid"} \/ ~Assignable(value, At(tv, cv.loc))
    THEN Outcome(tv, [SetFlag(cv, FlagFailed) EXCEPT !.fault = TRUE], FALSE)
    ELSE Outcome(Put(tv, cv.loc, value), SetFlag(cv, FlagApplied), FALSE)

\* ChangeValue.SetMapValue: SetMapIndex with a zero value deletes the key
SetMapValue(tv, cv, value) ==
    LET cur == At(tv, cv.loc)
    IN IF ~cv.haskey \/ (value.k # "nil" /\ TypeName(value) # cur.ek)
       THEN Outcome(tv, [SetFlag(cv, FlagFailed) EXCEPT !.fault = TRUE], FALSE)
       ELSE Outcome(Put(tv, cv.loc,
                        [cur EXCEPT !.m[cv.key] = IF value.k = "nil" THEN Absent ELSE value]),
                    cv, FALSE)

\* reflect.DeepEqual(x, cv.change.From) with x a reflect.Value: the struct
\* reflect.Value is never deeply equal to the value an interface holds
DeepEqualValue(x, from) == FALSE

renderTargetField(tv, t, field) ==
    LET cur == At(tv, t.loc)
    IN IF cur.k = "struct"
       THEN LET hits == {i \in 1..Len(cur.f) :
                            /\ ~(tagName(cur.f[i]) = "-" \/ hasTagOption(cur.f[i], "immutable"))
                            /\ (tagName(cur.f[i]) = field \/ cur.f[i].n = field)}
            IN IF hits = {} THEN t
               ELSE LET i == CHOOSE h \in hits : \A g \in hits : g <= h
                        f == cur.f[i]
                    IN [NewChangeValue EXCEPT
                          !.loc = Append(t.loc, i),
                          !.flags = (IF hasTagOption(f, "create") THEN {OptionCreate} ELSE {})
                                    \cup (IF hasTagOption(f, "omitunequal")
                                          THEN {OptionOmitUnequal} ELSE {})]
       ELSE [NewChangeValue EXCEPT !.loc = t.loc]

\* for _, p := range cv.change.Path; ret: patch returns from inside the loop
RECURSIVE walkPath(_, _, _, _)
walkPath(tv, cv, path, j) ==
    IF j > Len(path) THEN [cv |-> cv, ret |-> FALSE]
    ELSE LET cur == At(tv, cv.loc)
         IN IF cur.k = "slice"
            THEN IF AtoiOk(path[j])
                 THEN [cv |-> [cv EXCEPT !.index = Atoi(path[j]), !.err = ErrNil],
                       ret |-> FALSE]
                 ELSE [cv |-> [cv EXCEPT !.index = 0, !.err = ErrInvalidIndex],
                       ret |-> TRUE]
            ELSE IF cur.k = "map"
            THEN [cv |-> [cv EXCEPT !.haskey = TRUE, !.key = path[j]], ret |-> FALSE]
            ELSE walkPath(tv, renderTargetField(tv, cv, path[j]), path, j + 1)

\* deleteOperation closing the gap by moving the later elements down
deleteOperationShifting(tv, cv, c) ==
    LET cur == At(tv, cv.loc)
    IN CASE cur.k = "slice" ->
              IF Len(cur.e) > cv.index /\ cv.index < 0 THEN Outcome(tv, cv, TRUE)
              ELSE LET n == Len(cur.e)
                       atIndex == n > cv.index /\ DeepEqual(cur.e[cv.index + 1], c.from)
                       scan == ~atIndex /\ ~HasFlag(cv, OptionOmitUnequal)
                       hit == scan /\ \E i \in 1..n : DeepEqualValue(cur.e[i], c.from)
                       xValid == IF scan THEN n > 0 ELSE n > cv.index
                       cv1 == IF scan THEN AddError(cv, ErrIndexInvalid) ELSE cv
                       di == IF atIndex THEN cv.index + 1
                             ELSE CHOOSE i \in 1..n :
                                      /\ DeepEqualValue(cur.e[i], c.from)
                                      /\ \A h \in (i + 1)..n : ~DeepEqualValue(cur.e[h], c.from)
                   IN IF xValid /\ (atIndex \/ hit)
                      THEN LET e1 == SubSeq(cur.e, 1, di - 1) \o SubSeq(cur.e, di + 1, n)
                           IN Outcome(Put(tv, cv.loc, [cur EXCEPT !.e = e1]),
                                      SetFlag(cv1, FlagDeleted), FALSE)
                      ELSE Outcome(tv, AddError(SetFlag(cv1, FlagIgnored), ErrNoSliceEntry),
                                   FALSE)
         [] cur.k = "map" ->
              IF ~DeepEqual(c.from, cur) /\ HasFlag(cv, OptionOmitUnequal)
              THEN Outcome(tv, AddError(SetFlag(cv, FlagIgnored), ErrNoMatch), FALSE)
              ELSE IF cur.isnil
              THEN Outcome(tv, AddError(SetFlag(cv, FlagIgnored), ErrNilMapDelete), FALSE)
              ELSE SetMapValue(tv, SetFlag(cv, FlagDeleted), Nil)
         [] OTHER ->
              LET r == Set(tv, cv, Zero(cur))
              IN Outcome(r.tv, SetFlag(r.cv, FlagDeleted), FALSE)

\* deleteOperation without the return after the omitunequal test on a map
deleteOperationFallingThrough(tv, cv, c) ==
    LET cur == At(tv, cv.loc)
    IN CASE cur.k = "slice" ->
              IF Len(cur.e) > cv.index /\ cv.index < 0 THEN Outcome(tv, cv, TRUE)
              ELSE LET n == Len(cur.e)
                       atIndex == n > cv.index /\ DeepEqual(cur.e[cv.index + 1], c.from)
                       scan == ~atIndex /\ ~HasFlag(cv, OptionOmitUnequal)
                       hit == scan /\ \E i \in 1..n : DeepEqualValue(cur.e[i], c.from)
                       xValid == IF scan THEN n > 0 ELSE n > cv.index
                       cv1 == IF scan THEN AddError(cv, ErrIndexInvalid) ELSE cv
                       di == IF atIndex THEN cv.index + 1
                             ELSE CHOOSE i \in 1..n :
                                      /\ DeepEqualValue(cur.e[i], c.from)
                                      /\ \A h \in (i + 1)..n : ~DeepEqualValue(cur.e[h], c.from)
                   IN IF xValid /\ (atIndex \/ hit)
                      THEN LET e1 == [cur.e EXCEPT ![di] = cur.e[n]]
                           IN Outcome(Put(tv, cv.loc, [cur EXCEPT !.e = SubSeq(e1, 1, n - 1)]),
                                      SetFlag(cv1, FlagDeleted), FALSE)
                      ELSE Outcome(tv, AddError(SetFlag(cv1, FlagIgnored), ErrNoSliceEntry),
                                   FALSE)
         [] cur.k = "map" ->
              LET cv1 == IF ~DeepEqual(c.from, cur) /\ HasFlag(cv, OptionOmitUnequal)
                         THEN AddError(SetFlag(cv, FlagIgnored), ErrNoMatch)
                         ELSE cv
              IN IF cur.isnil
                 THEN Outcome(tv, AddError(SetFlag(cv1, FlagIgnored), ErrNilMapDelete), FALSE)
                 ELSE SetMapValue(tv, SetFlag(cv1, FlagDeleted), Nil)
         [] OTHER ->
              LET r == Set(tv, cv, Zero(cur))
              IN Outcome(r.tv, SetFlag(r.cv, FlagDeleted), FALSE)

deleteOperation(tv, cv, c) ==
    LET cur == At(tv, cv.loc)
    IN CASE cur.k = "slice" ->
              IF Len(cur.e) > cv.index /\ cv.index < 0 THEN Outcome(tv, cv, TRUE)
              ELSE LET n == Len(cur.e)
                       atIndex == n > cv.index /\ DeepEqual(cur.e[cv.index + 1], c.from)
                       scan == ~atIndex /\ ~HasFlag(cv, OptionOmitUnequal)
                       hit == scan /\ \E i \in 1..n : DeepEqualValue(cur.e[i], c.from)
                       xValid == IF scan THEN n > 0 ELSE n > cv.index
                       cv1 == IF scan THEN AddError(cv, ErrIndexInvalid) ELSE cv
                       di == IF atIndex THEN cv.index + 1
                             ELSE CHOOSE i \in 1..n :
                                      /\ DeepEqualValue(cur.e[i], c.from)
                                      /\ \A h \in (i + 1)..n : ~DeepEqualValue(cur.e[h], c.from)
                   IN IF xValid /\ (atIndex \/ hit)
                      THEN LET e1 == [cur.e EXCEPT ![di] = cur.e[n]]
                           IN Outcome(Put(tv, cv.loc, [cur EXCEPT !.e = SubSeq(e1, 1, n - 1)]),
                                      SetFlag(cv1, FlagDeleted), FALSE)
                      ELSE Outcome(tv, AddError(SetFlag(cv1, FlagIgnored), ErrNoSliceEntry),
                                   FALSE)
         [] cur.k = "map" ->
              IF ~DeepEqual(c.from, cur) /\ HasFlag(cv, OptionOmitUnequal)
              THEN Outcome(tv, AddError(SetFlag(cv, FlagIgnored), ErrNoMatch), FALSE)
              ELSE IF cur.isnil
              THEN Outcome(tv, AddError(SetFlag(cv, FlagIgnored), ErrNilMapDelete), FALSE)
              ELSE SetMapValue(tv, SetFlag(cv, FlagDeleted), Nil)
         [] OTHER ->
              LET r == Set(tv, cv, Zero(cur))
              IN Outcome(r.tv, SetFlag(r.cv, FlagDeleted), FALSE)

\* updateOperation appending a created element only when the sequence does
\* not hold an equal one yet
updateOperationCreatingOnce(tv, cv, c) ==
    LET cur == At(tv, cv.loc)
    IN CASE cur.k = "slice" ->
              IF Len(cur.e) > cv.index /\ cv.index < 0 THEN Outcome(tv, cv, TRUE)
              ELSE LET n == Len(cur.e)
                       atIndex == n > cv.index /\ DeepEqual(cur.e[cv.index + 1], c.from)
                       scan == ~atIndex /\ ~HasFlag(cv, OptionOmitUnequal)
                       hit == scan /\ \E i \in 1..n : DeepEqualValue(cur.e[i], c.from)
                       xValid == IF scan THEN n > 0 ELSE n > cv.index
                       xi == IF scan THEN n ELSE cv.index + 1
                       cv1 == IF scan THEN AddError(cv, ErrIndexInvalid) ELSE cv
                   IN IF xValid /\ (atIndex \/ hit)
                      THEN IF c.to.k = "nil" \/ TypeName(c.to) # cur.ek
                           THEN Outcome(tv, cv1, TRUE)
                           ELSE Outcome(Put(tv, cv.loc, [cur EXCEPT !.e[xi] = c.to]),
                                        SetFlag(cv1, FlagUpdated), FALSE)
                      ELSE IF HasFlag(cv1, OptionCreate) /\ c.type = CREATE /\ ~sliceHas(cur, c.to)
                      THEN IF c.to.k = "nil" \/ TypeName(c.to) # cur.ek
                           THEN Outcome(tv, cv1, TRUE)
                           ELSE LET r == Set(tv, cv1, [cur EXCEPT !.e = Append(cur.e, c.to)])
                                IN Outcome(r.tv, SetFlag(r.cv, FlagCreated), FALSE)
                      ELSE Outcome(tv, SetFlag(AddError(cv1, ErrNoSliceEntry), FlagIgnored),
                                   FALSE)
         [] cur.k = "map" ->
              IF ~DeepEqual(c.from, cur) /\ HasFlag(cv, OptionOmitUnequal)
              THEN Outcome(tv, AddError(SetFlag(cv, FlagIgnored), ErrNoMatch), FALSE)
              ELSE IF cur.isnil
              THEN IF HasFlag(cv, OptionCreate)
                   THEN IF ~cv.haskey \/ (c.to.k # "nil" /\ TypeName(c.to) # cur.ek)
                        THEN Outcome(tv, cv, TRUE)
                        ELSE LET nm == MapV(cur.ek,
                                            [key \in MapKeys |->
                                               IF key = cv.key /\ c.to.k # "nil"
                                               THEN c.to ELSE Absent])
                                 r == Set(tv, cv, nm)
                             IN Outcome(r.tv, SetFlag(r.cv, FlagCreated), FALSE)
                   ELSE Outcome(tv, AddError(SetFlag(cv, FlagIgnored), ErrNilMapCreate), FALSE)
              ELSE SetMapValue(tv, SetFlag(cv, FlagUpdated), c.to)
         [] OTHER ->
              IF ~DeepEqual(c.from, cur) /\ HasFlag(cv, OptionOmitUnequal)
              THEN Outcome(tv, AddError(SetFlag(cv, FlagIgnored), ErrNoMatch), FALSE)
              ELSE LET r == Set(tv, cv, c.to)
                   IN Outcome(r.tv, SetFlag(r.cv, FlagUpdated), FALSE)

\* updateOperation leaving out, under omitunequal, the field that equals From
updateOperationOmittingEqual(tv, cv, c) ==
    LET cur == At(tv, cv.loc)
    IN CASE cur.k = "slice" ->
              IF Len(cur.e) > cv.index /\ cv.index < 0 THEN Outcome(tv, cv, TRUE)
              ELSE LET n == Len(cur.e)
                       atIndex == n > cv.index /\ DeepEqual(cur.e[cv.index + 1], c.from)
                       scan == ~atIndex /\ ~HasFlag(cv, OptionOmitUnequal)
                       hit == scan /\ \E i \in 1..n : DeepEqualValue(cur.e[i], c.from)
                       xValid == IF scan THEN n > 0 ELSE n > cv.index
                       xi == IF scan THEN n ELSE cv.index + 1
                       cv1 == IF scan THEN AddError(cv, ErrIndexInvalid) ELSE cv
                   IN IF xValid /\ (atIndex \/ hit)
                      THEN IF c.to.k = "nil" \/ TypeName(c.to) # cur.ek
                           THEN Outcome(tv, cv1, TRUE)
                           ELSE Outcome(Put(tv, cv.loc, [cur EXCEPT !.e[xi] = c.to]),
                                        SetFlag(cv1, FlagUpdated), FALSE)
                      ELSE IF HasFlag(cv1, OptionCreate) /\ c.type = CREATE
                      THEN IF c.to.k = "nil" \/ TypeName(c.to) # cur.ek
                           THEN Outcome(tv, cv1, TRUE)
                           ELSE LET r == Set(tv, cv1, [cur EXCEPT !.e = Append(cur.e, c.to)])
                                IN Outcome(r.tv, SetFlag(r.cv, FlagCreated), FALSE)
                      ELSE Outcome(tv, SetFlag(AddError(cv1, ErrNoSliceEntry), FlagIgnored),
                                   FALSE)
         [] cur.k = "map" ->
              IF ~DeepEqual(c.from, cur) /\ HasFlag(cv, OptionOmitUnequal)
              THEN Outcome(tv, AddError(SetFlag(cv, FlagIgnored), ErrNoMatch), FALSE)
              ELSE IF cur.isnil
              THEN IF HasFlag(cv, OptionCreate)
                   THEN IF ~cv.haskey \/ (c.to.k # "nil" /\ TypeName(c.to) # cur.ek)
                        THEN Outcome(tv, cv, TRUE)
                        ELSE LET nm == MapV(cur.ek,
                                            [key \in MapKeys |->
                                               IF key = cv.key /\ c.to.k # "nil"
                                               THEN c.to ELSE Absent])
                                 r == Set(tv, cv, nm)
                             IN Outcome(r.tv, SetFlag(r.cv, FlagCreated), FALSE)
                   ELSE Outcome(tv, AddError(SetFlag(cv, FlagIgnored), ErrNilMapCreate), FALSE)
              ELSE SetMapValue(tv, SetFlag(cv, FlagUpdated), c.to)
         [] OTHER ->
              IF DeepEqual(c.from, cur) /\ HasFlag(cv, OptionOmitUnequal)
              THEN Outcome(tv, AddError(SetFlag(cv, FlagIgnored), ErrNoMatch), FALSE)
              ELSE LET r == Set(tv, cv, c.to)
                   IN Outcome(r.tv, SetFlag(r.cv, FlagUpdated), FALSE)

updateOperation(tv, cv, c) ==
    LET cur == At(tv, cv.loc)
    IN CASE cur.k = "slice" ->
              IF Len(cur.e) > cv.index /\ cv.index < 0 THEN Outcome(tv, cv, TRUE)
              ELSE LET n == Len(cur.e)
                       atIndex == n > cv.index /\ DeepEqual(cur.e[cv.index + 1], c.from)
                       scan == ~atIndex /\ ~HasFlag(cv, OptionOmitUnequal)
                       hit == scan /\ \E i \in 1..n : DeepEqualValue(cur.e[i], c.from)
                       xValid == IF scan THEN n > 0 ELSE n > cv.index
                       xi == IF scan THEN n ELSE cv.index + 1
                       cv1 == IF scan THEN AddError(cv, ErrIndexInvalid) ELSE cv
                   IN IF xValid /\ (atIndex \/ hit)
                      THEN IF c.to.k = "nil" \/ TypeName(c.to) # cur.ek
                           THEN Outcome(tv, cv1, TRUE)
                           ELSE Outcome(Put(tv, cv.loc, [cur EXCEPT !.e[xi] = c.to]),
                                        SetFlag(cv1, FlagUpdated), FALSE)
                      ELSE IF HasFlag(cv1, OptionCreate) /\ c.type = CREATE
                      THEN IF c.to.k = "nil" \/ TypeName(c.to) # cur.ek
                           THEN Outcome(tv, cv1, TRUE)
                           ELSE LET r == Set(tv, cv1, [cur EXCEPT !.e = Append(cur.e, c.to)])
                                IN Outcome(r.tv, SetFlag(r.cv, FlagCreated), FALSE)
                      ELSE Outcome(tv, SetFlag(AddError(cv1, ErrNoSliceEntry), FlagIgnored),
                                   FALSE)
         [] cur.k = "map" ->
              IF ~DeepEqual(c.from, cur) /\ HasFlag(cv, OptionOmitUnequal)
              THEN Outcome(tv, AddError(SetFlag(cv, FlagIgnored), ErrNoMatch), FALSE)
              ELSE IF cur.isnil
              THEN IF HasFlag(cv, OptionCreate)
                   THEN IF ~cv.haskey \/ (c.to.k # "nil" /\ TypeName(c.to) # cur.ek)
                        THEN Outcome(tv, cv, TRUE)
                        ELSE LET nm == MapV(cur.ek,
                                            [key \in MapKeys |->
                                               IF key = cv.key /\ c.to.k # "nil"
                                               THEN c.to ELSE Absent])
                                 r == Set(tv, cv, nm)
                             IN Outcome(r.tv, SetFlag(r.cv, FlagCreated), FALSE)
                   ELSE Outcome(tv, AddError(SetFlag(cv, FlagIgnored), ErrNilMapCreate), FALSE)
              ELSE SetMapValue(tv, SetFlag(cv, FlagUpdated), c.to)
         [] OTHER ->
              IF ~DeepEqual(c.from, cur) /\ HasFlag(cv, OptionOmitUnequal)
              THEN Outcome(tv, AddError(SetFlag(cv, FlagIgnored), ErrNoMatch), FALSE)
              ELSE LET r == Set(tv, cv, c.to)
                   IN Outcome(r.tv, SetFlag(r.cv, FlagUpdated), FALSE)

\* the deferred recover of patch recording the error only
RecoveredUnflagged(tv, cv) ==
    Outcome(tv, [AddError(cv, ErrCannotSet) EXCEPT !.fault = TRUE], FALSE)

\* the deferred recover of patch
Recovered(tv, cv) ==
    Outcome(tv, [SetFlag(AddError(cv, ErrCannotSet), FlagInvalidTarget) EXCEPT !.fault = TRUE],
            FALSE)

\* patch with DELETE in the case of UPDATE and CREATE
patchUpdatingOnDelete(c, tv, byRef) ==
    IF ~byRef THEN Recovered(tv, NewChangeValue)
    ELSE LET cv0 == [NewChangeValue EXCEPT !.index = -1]
             w == IF tv.k = "struct" THEN walkPath(tv, cv0, c.path, 1)
                  ELSE [cv |-> cv0, ret |-> FALSE]
         IN IF w.ret THEN Outcome(tv, w.cv, FALSE)
            ELSE LET r == IF c.type \in {DELETE, UPDATE, CREATE}
                          THEN updateOperation(tv, w.cv, c)
                          ELSE Outcome(tv, w.cv, FALSE)
                 IN IF r.panic THEN Recovered(tv, r.cv) ELSE r

\* patch(c): one Change against the target.  byRef: the caller passed a
\* pointer to tv; otherwise it passed tv itself and Elem() panics.
patch(c, tv, byRef) ==
    IF ~byRef THEN Recovered(tv, NewChangeValue)
    ELSE LET cv0 == [NewChangeValue EXCEPT !.index = -1]
             w == IF tv.k = "struct" THEN walkPath(tv, cv0, c.path, 1)
                  ELSE [cv |-> cv0, ret |-> FALSE]
         IN IF w.ret THEN Outcome(tv, w.cv, FALSE)
            ELSE LET r == IF c.type = DELETE THEN deleteOperation(tv, w.cv, c)
                          ELSE IF c.type \in {UPDATE, CREATE}
                          THEN updateOperation(tv, w.cv, c)
                          ELSE Outcome(tv, w.cv, FALSE)
                 IN IF r.panic THEN Recovered(tv, r.cv) ELSE r

\* NewPatchLogEntry with From and To taken from each other's field
NewPatchLogEntrySwapped(c, cv) ==
    [path |-> c.path, from |-> c.to, to |-> c.from,
     flags |-> cv.flags, errors |-> cv.err, fault |-> cv.fault]

NewPatchLogEntry(c, cv) ==
    [path |-> c.path, from |-> c.from, to |-> c.to,
     flags |-> cv.flags, errors |-> cv.err, fault |-> cv.fault]

\* Patch(cl, target): the PatchLog and the target after the loop
RECURSIVE PatchFrom(_, _, _, _, _)
PatchFrom(changes, tv, byRef, ret, j) ==
    IF j > Len(changes) THEN [pl |-> ret, tv |-> tv]
    ELSE LET r == patch(changes[j], tv, byRef)
         IN PatchFrom(changes, r.tv, byRef, Append(ret, NewPatchLogEntry(changes[j], r.cv)),
                      j + 1)

Patch(changes, tv, byRef) == PatchFrom(changes, tv, byRef, <<>>, 1)

\* the body of Merge patching with whatever Diff collected before its error
mergeDiffedPatchingOnError(d, tv, byRef) ==
    LET r == Patch(d.cl, tv, byRef)
    IN [pl |-> r.pl, tv |-> r.tv, err |-> d.err]

\* the body of Merge once Diff has returned d = (cl, err)
mergeDiffed(d, tv, byRef) ==
    IF d.err = ErrNil
    THEN LET r == Patch(d.cl, tv, byRef)
         IN [pl |-> r.pl, tv |-> r.tv, err |-> ErrNil]
    ELSE [pl |-> <<>>, tv |-> tv, err |-> d.err]

\* Merge(original, changed, target)
Merge(m, o, original, changed, tv, byRef) ==
    mergeDiffed(Diff(m, o, original, changed), tv, byRef)

\* ------------------------------------------------------------- inputs
\* The values the calls are made on.  Every family is a set of Go values
\* of one static type; an input also fixes mem, the objects its pointers
\* refer to.
Ints == {IntV(i) : i \in 1..MaxVal}
Strs == {StrV(s) : s \in MapKeys}
Prims == Ints \cup Strs \cup {BoolV(TRUE), BoolV(FALSE), FloatV}

SeqsOver(S, n) == UNION {[1..m -> S] : m \in 0..n}

IntSlices == {SliceV("int", e) : e \in SeqsOver(Ints, MaxLen)}

\* type tistruct struct { Name string `diff:"name,identifier"`; Value int `diff:"value"` }
tistruct(name, value) ==
    StructV("tistruct", <<Field("Name", "name", <<"identifier">>, StrV(name)),
                          Field("Value", "value", <<>>, IntV(value))>>)

\* the same record with a Value of another kind
tjstruct(name, value) ==
    StructV("tjstruct", <<Field("Name", "name", <<"identifier">>, StrV(name)),
                          Field("Value", "value", <<>>, StrV(value))>>)

TiElems == {tistruct(n, v) : n \in MapKeys, v \in 1..MaxVal}
TjElems == {tjstruct(n, n) : n \in MapKeys}
IdSlices == {SliceV("tistruct", e) : e \in SeqsOver(TiElems, MaxLen)}
TjSlices == {SliceV("tjstruct", e) : e \in SeqsOver(TjElems, 2)}

\* type pstruct struct { P1 T1; P2 T2 }, as many types as kinds of fields
pstruct(p1, p2) ==
    StructV("pstruct", <<Field("P1", "P1", <<>>, p1), Field("P2", "P2", <<>>, p2)>>)

PStructs == {pstruct(x, y) : x \in {IntV(1), StrV("x")}, y \in {IntV(1), IntV(2), StrV("x")}}

\* type ostruct struct { A int `diff:"a"`; Skip int `diff:"-"`; Im int `diff:"im,immutable"` }
ostruct(x, skip, im) ==
    StructV("ostruct", <<Field("A", "a", <<>>, IntV(x)),
                         Field("Skip", "-", <<>>, IntV(skip)),
                         Field("Im", "im", <<"immutable">>, IntV(im))>>)

OStructs == {ostruct(x, y, z) : x \in 1..MaxVal, y \in 1..2, z \in 1..2}

IntMaps == {MapV("int", m) : m \in [MapKeys -> Ints \cup {Absent}]} \cup {NilMap("int")}

\* type Node struct { Val int `diff:"val"`; Next *Node `diff:"next"` }
Node(val, next) ==
    StructV("Node", <<Field("Val", "val", <<>>, IntV(val)),
                      Field("Next", "next", <<>>, PtrV(next))>>)

Mems == [1..NumNodes -> {Node(v, n) : v \in 1..MaxVal, n \in 0..NumNodes}]
Ptrs == {PtrV(p) : p \in 0..NumNodes}
NoMem == <<>>

\* type W struct { F T `diff:"f,create"` }, nested depth times around v
RECURSIVE Wrap(_, _)
Wrap(v, depth) ==
    IF depth = 0 THEN v
    ELSE StructV("W", <<Field("F", "f", <<"create">>, Wrap(v, depth - 1))>>)

\* the orders in which one run can iterate over the keys of a Go map
KeyOrders == {o \in [1..Cardinality(MapKeys) -> Strs] :
                 \A i, j \in DOMAIN o : i # j => o[i] # o[j]}

SameTypePairs ==
    {[a |-> Wrap(x, d), b |-> Wrap(y, d), mem |-> NoMem] :
        x \in IntSlices, y \in IntSlices, d \in 0..MaxWrap}
    \cup {[a |-> Wrap(x, d), b |-> Wrap(y, d), mem |-> NoMem] :
        x \in IdSlices, y \in IdSlices, d \in 0..1}
    \cup {[a |-> Wrap(x, d), b |-> Wrap(y, d), mem |-> NoMem] :
        x \in IntMaps, y \in IntMaps, d \in 0..MaxWrap}
    \cup {[a |-> Wrap(x, d), b |-> Wrap(y, d), mem |-> NoMem] :
        x \in OStructs, y \in OStructs, d \in 0..1}
    \cup {[a |-> Wrap(x, d), b |-> Wrap(y, d), mem |-> NoMem] :
        x \in Ints, y \in Ints, d \in 0..1}
    \cup {[a |-> Wrap(x, d), b |-> Wrap(y, d), mem |-> NoMem] :
        x \in Strs, y \in Strs, d \in 0..1}
    \cup {[a |-> x, b |-> y, mem |-> NoMem] :
        x \in {BoolV(TRUE), BoolV(FALSE)}, y \in {BoolV(TRUE), BoolV(FALSE)}}
    \cup {[a |-> FloatV, b |-> FloatV, mem |-> NoMem]}
    \cup {[a |-> Wrap(x, d), b |-> Wrap(y, d), mem |-> m] :
        x \in Ptrs, y \in Ptrs, m \in Mems, d \in 0..1}

\* two values of different static type: at the top level, in a field of
\* two records, or in the elements of two identifier-bearing sequences
MixedPairs ==
    {[a |-> Wrap(x, d), b |-> Wrap(y, d), mem |-> NoMem] :
        x \in Ints \cup Strs \cup {SliceV("int", <<>>)},
        y \in Ints \cup Strs \cup {SliceV("int", <<>>)}, d \in 0..1}
    \cup {[a |-> x, b |-> y, mem |-> NoMem] : x \in IdSlices, y \in TjSlices}
    \cup {[a |-> x, b |-> y, mem |-> NoMem] : x \in TjSlices, y \in IdSlices}
    \cup {[a |-> x, b |-> y, mem |-> NoMem] : x \in PStructs, y \in PStructs}

Inputs == SameTypePairs \cup MixedPairs

\* the pairs handed to a Differ: sequences of primitives and primitives
DifferInputs ==
    {[a |-> x, b |-> y] : x \in IntSlices, y \in IntSlices}
    \cup {[a |-> x, b |-> y] : x \in Strs, y \in Strs}

\* the path patterns handed to Filter and FilterOut
Patterns == {<<>>, <<"f">>, <<"1">>, <<AnySegment, "1">>, <<"f", "f", "0">>, <<"x", "value">>}

\* the base paths handed to StructValues: []string{} and []string{"b"}
BasePaths == {[heap |-> <<>>, path |-> EmptyPath],
              [heap |-> << <<"b">> >>, path |-> [arr |-> 1, len |-> 1]]}

\* the values handed to StructValues
ValueInputs ==
    {[a |-> x, mem |-> NoMem] : x \in TiElems \cup OStructs \cup {tistruct("x", 0)}}
    \cup {[a |-> Wrap(x, d), mem |-> NoMem] : x \in IntSlices \cup IntMaps, d \in 1..MaxWrap}
    \cup {[a |-> Wrap(x, 1), mem |-> NoMem] : x \in OStructs \cup Ints}
    \cup {[a |-> x, mem |-> NoMem] : x \in Ints \cup IntSlices}
    \cup {[a |-> Wrap(PtrV(p), 1), mem |-> m] : p \in 0..NumNodes, m \in Mems}

\* a Change as a caller writes it: Change{Type: t, Path: path, From: from, To: to}
Change(t, path, from, to) ==
    [type |-> t, path |-> path, p0 |-> path, from |-> from, to |-> to]

\* the tag options of a patched field: none, create, omitunequal, both
OptSets == {<<>>, <<"create">>, <<"omitunequal">>, <<"create", "omitunequal">>}

OptName(o) ==
    IF o = <<>> THEN "T"
    ELSE IF o = <<"create">> THEN "Tcreate"
    ELSE IF o = <<"omitunequal">> THEN "Tomit"
    ELSE "Tcreateomit"

\* type T struct { F X `diff:"f,<options>"` }, one type per set of options
tstruct(v, o) == StructV(OptName(o), <<Field("F", "f", o, v)>>)

\* the sequences and maps a patched field holds
TargetSeqs == IntSlices \cup {SliceV("int", <<IntV(1), IntV(2), IntV(1)>>)}
TargetMaps ==
    {NilMap("int"),
     MapV("int", [key \in MapKeys |-> Absent]),
     MapV("int", [key \in MapKeys |-> IF key = "x" THEN IntV(1) ELSE Absent]),
     MapV("int", [key \in MapKeys |-> IF key = "x" THEN IntV(2) ELSE Absent]),
     MapV("int", [key \in MapKeys |-> IF key = "x" THEN IntV(1) ELSE IntV(2)])}

\* the Changes of one path as Diff writes them: a DELETE carries from, a
\* CREATE carries to, an UPDATE carries both
ChangesOver(path, S) ==
    {Change(DELETE, path, x, Nil) : x \in S}
    \cup {Change(CREATE, path, Nil, y) : y \in S}
    \cup {Change(UPDATE, path, x, y) : x \in S, y \in S}

ChangesAt(path) == ChangesOver(path, Ints)

\* the segments a path has after the field: an index, a key, or none
SeqChanges == UNION {ChangesAt(<<"f", Itoa(i)>>) : i \in 0..2}
MapChanges == UNION {ChangesAt(<<"f", key>>) : key \in MapKeys}
FieldChanges == ChangesAt(<<"f">>)

\* the records a field of record type holds, and the Changes of that field
TargetRecords == {ostruct(x, 1, 1) : x \in 1..MaxVal}
RecordChanges == ChangesOver(<<"f">>, TargetRecords)

\* the paths into an ostruct: its fields by tag and by name, and no field
OPaths == {<<"a">>, <<"-">>, <<"Skip">>, <<"im">>, <<"Im">>, <<"zz">>, <<"zz", "0">>}
OChanges == UNION {ChangesAt(path) : path \in OPaths}

\* a Changelog made by the caller and the target it is applied to
PatchInputs ==
    {[cl |-> <<c>>, target |-> tstruct(z, o)] : c \in SeqChanges, z \in TargetSeqs, o \in OptSets}
    \cup {[cl |-> <<c>>, target |-> tstruct(z, o)] :
             c \in MapChanges, z \in TargetMaps, o \in OptSets}
    \cup {[cl |-> <<c>>, target |-> tstruct(z, o)] : c \in FieldChanges, z \in Ints, o \in OptSets}
    \cup {[cl |-> <<c>>, target |-> tstruct(z, o)] :
             c \in RecordChanges, z \in TargetRecords, o \in OptSets}
    \cup {[cl |-> <<c>>, target |-> z] : c \in OChanges, z \in OStructs}

\* ------------------------------------------------------ state machine
VARIABLES
    pc,        \* "idle", "diffed", "patching", "patched", "merged"
    a, b,      \* the two values of the last Diff or Merge call
    mem,       \* the objects the pointers of a and b refer to
    ord,       \* the map iteration order of the last Diff call
    cl,        \* the Changelog the last Diff call returned
    err,       \* the error the last Diff or Merge call returned
    trace,     \* the pairs the last Diff call compared, in order
    seen,      \* pointersSeen when the last Diff call returned
    target,    \* the value the caller patches
    byRef,     \* the caller passes &target (TRUE) or target (FALSE)
    tgt0,      \* target when Patch or Merge was called
    pl,        \* the PatchLog built so far
    differ,    \* the Differ of the caller, Nil when it has none
    hist,      \* how many Changes each Diff call on differ returned, in order
    arg,       \* the pattern of the last Filter or FilterOut call, or the
               \* change type and base path of the last StructValues call
    ncl        \* the Changelog the last Filter or FilterOut call returned

vars == <<pc, a, b, mem, ord, cl, err, trace, seen, target, byRef, tgt0, pl, differ, hist, arg, ncl>>

aux == <<differ, hist, arg, ncl>>

Init ==
    /\ pc = "idle"
    /\ a = Nil /\ b = Nil /\ mem = NoMem
    /\ ord = <<>>
    /\ cl = <<>> /\ err = ErrNil /\ trace = <<>> /\ seen = {}
    /\ target = Nil /\ byRef = FALSE /\ tgt0 = Nil /\ pl = <<>>
    /\ differ = Nil /\ hist = <<>> /\ arg = Nil /\ ncl = <<>>

\* the values a caller holding a and b patches: one of them, or a fresh one
Targets(x, y) == {x, y, Zero(x)}

\* cl, err := Diff(a, b)
CallDiff ==
    /\ pc = "idle"
    /\ \E in \in Inputs, o \in KeyOrders :
          \E r \in {Diff(in.mem, o, in.a, in.b)} :
             /\ a' = in.a /\ b' = in.b /\ mem' = in.mem /\ ord' = o
             /\ cl' = r.cl /\ err' = r.err /\ trace' = r.trace
             /\ seen' = r.pointersSeen
    /\ pc' = "diffed"
    /\ UNCHANGED <<target, byRef, tgt0, pl>>
    /\ UNCHANGED aux

\* Patch(cl, target) is entered: ret is empty, the loop has not run yet
StartPatch ==
    /\ pc = "diffed"
    /\ \E t \in Targets(a, b), r \in BOOLEAN :
          /\ target' = t /\ tgt0' = t /\ byRef' = r
    /\ pl' = <<>>
    /\ pc' = "patching"
    /\ UNCHANGED <<a, b, mem, ord, cl, err, trace, seen>>
    /\ UNCHANGED aux

\* one iteration of the loop of Patch: the next Change, on the target as
\* the earlier Changes left it
PatchStep ==
    /\ pc = "patching"
    /\ Len(pl) < Len(cl)
    /\ \E r \in {patch(cl[Len(pl) + 1], target, byRef)} :
          /\ target' = r.tv
          /\ pl' = Append(pl, NewPatchLogEntry(cl[Len(pl) + 1], r.cv))
    /\ UNCHANGED <<pc, a, b, mem, ord, cl, err, trace, seen, byRef, tgt0>>
    /\ UNCHANGED aux

\* the loop is over: Patch returns ret
PatchReturn ==
    /\ pc = "patching"
    /\ Len(pl) = Len(cl)
    /\ pc' = "patched"
    /\ UNCHANGED <<a, b, mem, ord, cl, err, trace, seen, target, byRef, tgt0, pl>>
    /\ UNCHANGED aux

\* pl, err := Merge(a, b, target)
CallMerge ==
    /\ pc = "idle"
    /\ \E in \in Inputs, o \in KeyOrders, r \in BOOLEAN :
          \E t \in Targets(in.a, in.b) :
             \E m \in {Merge(in.mem, o, in.a, in.b, t, r)} :
                /\ a' = in.a /\ b' = in.b /\ mem' = in.mem /\ ord' = o
                /\ tgt0' = t /\ byRef' = r
                /\ target' = m.tv /\ pl' = m.pl /\ err' = m.err
    /\ cl' = <<>> /\ trace' = <<>> /\ seen' = {}
    /\ pc' = "merged"
    /\ UNCHANGED aux

\* the caller drops the results and is ready for another call
Reset ==
    /\ pc \in {"diffed", "patched", "merged", "repatched", "differ", "filtered",
               "filteredout", "valued", "itemized"}
    /\ pc' = "idle"
    /\ a' = Nil /\ b' = Nil /\ mem' = NoMem /\ ord' = <<>>
    /\ cl' = <<>> /\ err' = ErrNil /\ trace' = <<>> /\ seen' = {}
    /\ target' = Nil /\ byRef' = FALSE /\ tgt0' = Nil /\ pl' = <<>>
    /\ differ' = Nil /\ hist' = <<>> /\ arg' = Nil /\ ncl' = <<>>

\* Patch(cl, target) once more, on the target the first call left
PatchAgain ==
    /\ pc = "patched"
    /\ \E r \in {Patch(cl, target, byRef)} :
          /\ target' = r.tv
          /\ pl' = r.pl
    /\ pc' = "repatched"
    /\ UNCHANGED <<a, b, mem, ord, cl, err, trace, seen, byRef, tgt0>>
    /\ UNCHANGED aux

\* differ, err := NewDiffer(SliceOrdering(o))
CallNewDiffer ==
    /\ pc = "idle"
    /\ \E o \in BOOLEAN : differ' = NewDiffer(o)
    /\ hist' = <<>>
    /\ pc' = "differ"
    /\ UNCHANGED <<a, b, mem, ord, cl, err, trace, seen, target, byRef, tgt0, pl, arg, ncl>>

\* cl, err := differ.Diff(a, b)
CallDifferDiff ==
    /\ pc = "differ"
    /\ Len(hist) < MaxCalls
    /\ \E in \in DifferInputs, o \in KeyOrders :
          \E st \in {DifferDiff(differ, NoMem, o, in.a, in.b)} :
             /\ a' = in.a /\ b' = in.b /\ ord' = o
             /\ differ' = [differ EXCEPT !.cl = st.cl, !.heap = st.heap]
             /\ cl' = Returned(st).cl /\ err' = st.err /\ trace' = st.trace
             /\ seen' = st.pointersSeen
             /\ hist' = Append(hist, Len(st.cl))
    /\ UNCHANGED <<pc, mem, target, byRef, tgt0, pl, arg, ncl>>

\* ncl := cl.Filter(path)
CallFilter ==
    /\ pc = "diffed"
    /\ cl # <<>>
    /\ \E path \in Patterns :
          /\ arg' = path
          /\ ncl' = Filter(cl, path)
    /\ pc' = "filtered"
    /\ UNCHANGED <<a, b, mem, ord, cl, err, trace, seen, target, byRef, tgt0, pl, differ, hist>>

\* ncl := cl.FilterOut(path)
CallFilterOut ==
    /\ pc = "diffed"
    /\ cl # <<>>
    /\ \E path \in Patterns :
          /\ arg' = path
          /\ ncl' = FilterOut(cl, path)
    /\ pc' = "filteredout"
    /\ UNCHANGED <<a, b, mem, ord, cl, err, trace, seen, target, byRef, tgt0, pl, differ, hist>>

\* cl, err := StructValues(t, path, a)
CallStructValues ==
    /\ pc = "idle"
    /\ \E in \in ValueInputs, o \in KeyOrders, t \in {CREATE, DELETE, UPDATE}, bp \in BasePaths :
          \E r \in {StructValues(t, bp.heap, bp.path, in.mem, o, in.a)} :
             /\ a' = in.a /\ mem' = in.mem /\ ord' = o
             /\ arg' = [t |-> t, path |-> Resolve(bp.heap, bp.path)]
             /\ cl' = r.cl /\ err' = r.err /\ trace' = r.trace /\ seen' = r.pointersSeen
    /\ pc' = "valued"
    /\ UNCHANGED <<b, target, byRef, tgt0, pl, differ, hist, ncl>>

\* Patch(cl, &target) is entered with a Changelog the caller made
StartPatchOn ==
    /\ pc = "idle"
    /\ \E in \in PatchInputs :
          /\ cl' = in.cl /\ target' = in.target /\ tgt0' = in.target
    /\ byRef' = TRUE
    /\ pl' = <<>>
    /\ pc' = "patching"
    /\ UNCHANGED <<a, b, mem, ord, err, trace, seen>>
    /\ UNCHANGED aux

\* cl.diffStruct(path, a, b) with one side absent, on the Changelog cl that
\* the diff of an earlier pair has filled: left = TRUE is the call with a
\* the zero reflect.Value, left = FALSE the call with b the zero one
CallDiffStructAbsent ==
    /\ pc = "diffed"
    /\ err = ErrNil /\ cl # <<>>
    /\ a.k \in {"int", "string"}
    /\ \E x \in TiElems, left \in BOOLEAN :
          \E r \in {GoAppend(<<>>, EmptyPath, "s")} :
             \E st \in {diff([NewState(mem, ord) EXCEPT !.heap = r.heap],
                             EmptyPath, a, b, 1)} :
                \E st2 \in {diffStruct(st, r.path, IF left THEN Invalid ELSE x,
                                       IF left THEN x ELSE Invalid, 1)} :
                   /\ arg' = [left |-> left, s |-> x]
                   /\ ncl' = Returned(st2).cl
    /\ pc' = "itemized"
    /\ UNCHANGED <<a, b, mem, ord, cl, err, trace, seen, target, byRef, tgt0, pl, differ, hist>>

Next ==
    \/ CallDiffStructAbsent
    \/ CallDiff \/ StartPatch \/ PatchStep \/ PatchReturn \/ CallMerge \/ Reset
    \/ PatchAgain \/ CallNewDiffer \/ CallDifferDiff \/ CallFilter \/ CallFilterOut
    \/ CallStructValues \/ StartPatchOn

Spec == Init /\ [][Next]_vars

\* ============================================================ properties
Kinds == {"struct", "slice", "string", "bool", "int", "map", "ptr"}

\* the values diff has a case for, whatever their nesting
RECURSIVE Supported(_)
Supported(v) ==
    /\ v.k \in Kinds
    /\ v.k = "struct" => \A i \in 1..Len(v.f) : Supported(v.f[i].v)
    /\ v.k = "slice" => \A i \in 1..Len(v.e) : Supported(v.e[i])
    /\ v.k = "map" => \A key \in MapKeys : v.m[key] # Absent => Supported(v.m[key])

\* the value inside the records W, and the path that leads to it
RECURSIVE Core(_)
Core(v) == IF v.k = "struct" /\ v.t = "W" THEN Core(v.f[1].v) ELSE v

RECURSIVE CorePath(_)
CorePath(v) == IF v.k = "struct" /\ v.t = "W" THEN <<"f">> \o CorePath(v.f[1].v) ELSE <<>>

\* a Change as the caller reads it
Shown(c) == [type |-> c.type, path |-> c.path, from |-> c.from, to |-> c.to]
ShownLog(changes) == [j \in 1..Len(changes) |-> Shown(changes[j])]

Indexes(n) == [i \in 1..n |-> i]

IsIdSlice(v) == v.k = "slice" /\ v.ek = "tistruct"

Perms(n) == {f \in [1..n -> 1..n] : \A i, j \in 1..n : i # j => f[i] # f[j]}

IsReordering(s, t) ==
    /\ Len(s) = Len(t)
    /\ \E f \in Perms(Len(s)) : \A i \in 1..Len(s) : t[i] = s[f[i]]

DistinctKeys(s) == \A i, j \in 1..Len(s) : i # j => identifier(s[i]) # identifier(s[j])

\* C3 as stated: two sequences of identifier-bearing elements that hold the
\* same elements in a different order give an empty Changelog.
C3_ReorderingIsEmpty ==
    (/\ pc = "diffed"
     /\ IsIdSlice(Core(a)) /\ IsIdSlice(Core(b)) /\ CorePath(a) = CorePath(b)
     /\ IsReordering(Core(a).e, Core(b).e))
    => (cl = <<>> /\ err = ErrNil)

\* C3 amended: the same, for sequences in which no two elements share an
\* identifier.
C3_ReorderingOfDistinctKeysIsEmpty ==
    (/\ pc = "diffed"
     /\ IsIdSlice(Core(a)) /\ IsIdSlice(Core(b)) /\ CorePath(a) = CorePath(b)
     /\ IsReordering(Core(a).e, Core(b).e)
     /\ DistinctKeys(Core(a).e))
    => (cl = <<>> /\ err = ErrNil)

C3_Witness ==
    /\ pc = "diffed"
    /\ IsIdSlice(Core(a)) /\ IsIdSlice(Core(b)) /\ CorePath(a) = CorePath(b)
    /\ IsReordering(Core(a).e, Core(b).e) /\ DistinctKeys(Core(a).e)
    /\ Len(Core(a).e) = 2 /\ Core(a).e[1] = Core(b).e[2] /\ a # b
    /\ cl = <<>>

GenericDeletes(path, x, y) ==
    LET idx == SelectSeq(Indexes(Len(x.e)),
                         LAMBDA i : \A j \in 1..Len(y.e) : y.e[j] # x.e[i])
    IN [n \in 1..Len(idx) |->
          [type |-> DELETE, path |-> path \o <<Itoa(idx[n] - 1)>>,
           from |-> x.e[idx[n]], to |-> Nil]]

GenericCreates(path, x, y) ==
    LET idx == SelectSeq(Indexes(Len(y.e)),
                         LAMBDA j : \A i \in 1..Len(x.e) : x.e[i] # y.e[j])
    IN [n \in 1..Len(idx) |->
          [type |-> CREATE, path |-> path \o <<Itoa(idx[n] - 1)>>,
           from |-> Nil, to |-> y.e[idx[n]]]]

IsIntSlice(v) == v.k = "slice" /\ v.ek = "int"

\* C10: for two sequences of primitives without identifiers the Changelog
\* is the DELETEs of the left elements equal to no right element, at
\* path+[i], followed by the CREATEs of the right elements equal to no left
\* element, at path+[j], and nothing else.
C10_UnorderedSliceDiff ==
    (/\ pc = "diffed"
     /\ IsIntSlice(Core(a)) /\ IsIntSlice(Core(b)) /\ CorePath(a) = CorePath(b))
    => /\ err = ErrNil
       /\ ShownLog(cl) = GenericDeletes(CorePath(a), Core(a), Core(b))
                          \o GenericCreates(CorePath(a), Core(a), Core(b))

\* ------------------------------------------------------------ patching
\* x and y hold the same content field for field, sequences compared as
\* collections and a nil map as an empty one
RECURSIVE SameContent(_, _)
SameContent(x, y) ==
    IF x.k # y.k THEN FALSE
    ELSE IF x.k = "struct"
    THEN /\ x.t = y.t /\ Len(x.f) = Len(y.f)
         /\ \A i \in 1..Len(x.f) : SameContent(x.f[i].v, y.f[i].v)
    ELSE IF x.k = "slice"
    THEN \A v \in {x.e[i] : i \in 1..Len(x.e)} \cup {y.e[i] : i \in 1..Len(y.e)} :
            Cardinality({i \in 1..Len(x.e) : x.e[i] = v})
              = Cardinality({i \in 1..Len(y.e) : y.e[i] = v})
    ELSE IF x.k = "map" THEN x.m = y.m
    ELSE x = y

\* the inputs of the round trip: records whose fields all allow creation,
\* holding a primitive, a sequence of primitives, a map or a reference
RoundTripInput(x, y) ==
    /\ x.k = "struct" /\ x.t = "W" /\ CorePath(x) = CorePath(y)
    /\ Core(x).k = Core(y).k
    /\ Core(x).k \in {"int", "string", "map", "ptr"} \/ IsIntSlice(Core(x))

\* C2: for a and b of the same type, Patch(Diff(a, b), a') with a' a copy
\* of a leaves a' equal to b field for field, and no entry has an error.
C2_RoundTrip ==
    (/\ pc = "patched" /\ byRef /\ tgt0 = a /\ err = ErrNil
     /\ RoundTripInput(a, b))
    => /\ SameContent(target, b)
       /\ \A j \in 1..Len(pl) : pl[j].errors = ErrNil

\* C5: the PatchLog has one entry per Change, in the order of the
\* Changelog, each with the path, from and to of its Change; the Changes
\* are applied in that order, each on the target the earlier ones left.
C5_PatchLogFollowsChangelog ==
    pc \in {"patching", "patched"} =>
        /\ Len(pl) <= Len(cl)
        /\ pc = "patched" => Len(pl) = Len(cl)
        /\ \A j \in 1..Len(pl) :
              /\ pl[j].path = cl[j].path
              /\ pl[j].from = cl[j].from
              /\ pl[j].to = cl[j].to
        /\ target = Patch(SubSeq(cl, 1, Len(pl)), tgt0, byRef).tv

C5_Witness ==
    /\ pc = "patched" /\ byRef /\ Len(pl) = 2 /\ Len(cl) = 2
    /\ pl[1].path # pl[2].path /\ pl[1].from # pl[1].to
    /\ pl[1].errors = ErrNil /\ pl[2].errors = ErrNil
    /\ \A j \in 1..2 : pl[j].flags \cap {FlagCreated, FlagUpdated, FlagDeleted} # {}
    /\ target # tgt0 /\ target # Patch(SubSeq(cl, 1, 1), tgt0, byRef).tv

\* C6: a fault while one Change is applied is caught: that entry gets an
\* error and the invalid-target flag, and Patch goes on with the next
\* Change.
C6_FaultsAreRecorded ==
    pc \in {"patching", "patched"} =>
        /\ \A j \in 1..Len(pl) :
              pl[j].fault => (pl[j].errors # ErrNil /\ FlagInvalidTarget \in pl[j].flags)
        /\ pc = "patched" => Len(pl) = Len(cl)

Count(s, v) == Cardinality({i \in 1..Len(s) : s[i] = v})

Creates(changes, v) ==
    Cardinality({j \in 1..Len(changes) : changes[j].type = CREATE /\ changes[j].to = v})

Deletes(changes, v) ==
    Cardinality({j \in 1..Len(changes) : changes[j].type = DELETE /\ changes[j].from = v})

Monus(m, n) == IF m > n THEN m - n ELSE 0

\* C11: in the unordered comparison of two sequences a value occurring m
\* times on the left and n times on the right gives n-m CREATEs when n > m,
\* m-n DELETEs when m > n, and none otherwise: Diff([1], [1, 1]) is one
\* CREATE at path ["1"] with to = 1.
C11_DuplicatesMatchedOnce ==
    (pc = "diffed" /\ IsIntSlice(a) /\ IsIntSlice(b)) =>
        /\ err = ErrNil
        /\ \A v \in Ints :
              /\ Creates(cl, v) = Monus(Count(b.e, v), Count(a.e, v))
              /\ Deletes(cl, v) = Monus(Count(a.e, v), Count(b.e, v))
        /\ (a.e = <<IntV(1)>> /\ b.e = <<IntV(1), IntV(1)>>) =>
              ShownLog(cl) = <<[type |-> CREATE, path |-> <<"1">>, from |-> Nil, to |-> IntV(1)]>>

\* ---- C12
Min(m, n) == IF m < n THEN m ELSE n
Max(m, n) == IF m > n THEN m ELSE n

\* the Change the ordered comparison owes for index i (from 1) of x and y
OrderedChange(path, x, y, i) ==
    IF i > Len(y.e)
    THEN [type |-> DELETE, path |-> path \o <<Itoa(i - 1)>>, from |-> x.e[i], to |-> Nil]
    ELSE IF i > Len(x.e)
    THEN [type |-> CREATE, path |-> path \o <<Itoa(i - 1)>>, from |-> Nil, to |-> y.e[i]]
    ELSE [type |-> UPDATE, path |-> path \o <<Itoa(i - 1)>>, from |-> x.e[i], to |-> y.e[i]]

OrderedChanges(path, x, y) ==
    LET idx == SelectSeq(Indexes(Max(Len(x.e), Len(y.e))),
                         LAMBDA i : i > Min(Len(x.e), Len(y.e)) \/ x.e[i] # y.e[i])
    IN [n \in 1..Len(idx) |-> OrderedChange(path, x, y, idx[n])]

FreshDiff(sliceOrdering, o, x, y) ==
    Returned(DifferDiff(NewDiffer(sliceOrdering), NoMem, o, x, y))

\* C19: whatever calls were made on a Differ before, the Changelog a Diff
\* call returns holds the Changes of its own two inputs and no other.
C19_BufferResetPerCall ==
    (pc = "differ" /\ hist # <<>>) =>
        /\ cl = FreshDiff(differ.SliceOrdering, ord, a, b).cl
        /\ Len(cl) = hist[Len(hist)]

C19_Witness ==
    /\ pc = "differ" /\ Len(hist) = 2 /\ hist[1] = 2 /\ hist[2] = 1
    /\ ~differ.SliceOrdering
    /\ Len(cl) = 1 /\ cl[1].type = CREATE

\* ---- C13
\* the field of a record that Diff leaves out
Excluded(field) ==
    field.tag = "-" \/ \E j \in 1..Len(field.o) : field.o[j] = "immutable"

\* path names an excluded field of v, or something below one
RECURSIVE UnderExcluded(_, _)
UnderExcluded(v, path) ==
    /\ path # <<>>
    /\ v.k = "struct"
    /\ \E i \in 1..Len(v.f) :
          /\ v.f[i].tag = Head(path)
          /\ Excluded(v.f[i]) \/ UnderExcluded(v.f[i].v, Tail(path))

\* C13: Diff compares nothing and emits no Change at or below a field
\* named "-" or marked immutable, whatever the two values of the field.
C13_ExcludedFieldsSkipped ==
    pc = "diffed" =>
        /\ \A j \in 1..Len(cl) : ~UnderExcluded(a, cl[j].path)
        /\ \A j \in 1..Len(trace) : ~UnderExcluded(a, trace[j].path)

C13_Witness ==
    /\ pc = "diffed" /\ a.k = "struct" /\ a.t = "W" /\ Core(a).k = "struct"
    /\ Core(a).t = "ostruct"
    /\ \A i \in 1..3 : Core(a).f[i].v # Core(b).f[i].v
    /\ err = ErrNil /\ Len(cl) = 1 /\ cl[1].path = <<"f", "a">>

\* ---- C14
IsIntMap(v) == v.k = "map" /\ v.ek = "int"

\* the element v holds under key, Absent when it holds none: the value of
\* a map, the last element of a sequence that carries the identifier
SideOf(v, key) ==
    IF v.k = "map" THEN v.m[key]
    ELSE LET hits == {i \in 1..Len(v.e) : identifier(v.e[i]) = StrV(key)}
         IN IF hits = {} THEN Absent
            ELSE v.e[CHOOSE i \in hits : \A h \in hits : h <= i]

\* what reconciling the two sides of one key owes, as a set of Changes
ReconciledKey(o, path, x, y) ==
    IF x = Absent /\ y = Absent THEN {}
    ELSE IF y = Absent THEN {[type |-> DELETE, path |-> path, from |-> x, to |-> Nil]}
    ELSE IF x = Absent THEN {[type |-> CREATE, path |-> path, from |-> Nil, to |-> y]}
    ELSE {[type |-> c.type, path |-> path \o c.path, from |-> c.from, to |-> c.to] :
             c \in {Diff(NoMem, o, x, y).cl[j] : j \in 1..Len(Diff(NoMem, o, x, y).cl)}}

Reconciled(o, path, x, y) ==
    UNION {ReconciledKey(o, path \o <<key>>, SideOf(x, key), SideOf(y, key)) : key \in MapKeys}

\* C14: for two sequences of identifier-bearing elements, or two maps, the
\* Changelog holds for every key one DELETE of the whole element at
\* path+key when only the left has it, one CREATE of the whole element at
\* path+key when only the right has it, and the Changes of the comparison
\* of the pair, made at path+key, when both have it; and nothing else.
C14_ReconciliationPerKey ==
    (/\ pc = "diffed" /\ CorePath(a) = CorePath(b)
     /\ \/ IsIdSlice(Core(a)) /\ IsIdSlice(Core(b))
        \/ IsIntMap(Core(a)) /\ IsIntMap(Core(b)))
    => /\ err = ErrNil
       /\ {Shown(cl[j]) : j \in 1..Len(cl)} = Reconciled(ord, CorePath(a), Core(a), Core(b))
       /\ Len(cl) = Cardinality(Reconciled(ord, CorePath(a), Core(a), Core(b)))
       /\ \A key \in MapKeys :
             (SideOf(Core(a), key) # Absent /\ SideOf(Core(b), key) # Absent) =>
                 \E j \in 1..Len(trace) : trace[j].path = CorePath(a) \o <<key>>

\* ---- C15
\* the keys of the elements of s in order of first occurrence
RECURSIVE FirstKeys(_, _)
FirstKeys(s, acc) ==
    IF s = <<>> THEN acc
    ELSE FirstKeys(Tail(s),
                   IF \E i \in 1..Len(acc) : acc[i] = idstring(identifier(Head(s)))
                   THEN acc ELSE Append(acc, idstring(identifier(Head(s)))))

\* the keys the Changes of a Changelog are about, in order of first Change
RECURSIVE ChangedKeys(_, _)
ChangedKeys(changes, acc) ==
    IF changes = <<>> THEN acc
    ELSE ChangedKeys(Tail(changes),
                     IF \E i \in 1..Len(acc) : acc[i] = Head(changes).path[1]
                     THEN acc ELSE Append(acc, Head(changes).path[1]))

IsSubSeqOf(s, t) ==
    \E f \in [1..Len(s) -> 1..Len(t)] :
        /\ \A i \in 1..Len(s) : t[f[i]] = s[i]
        /\ \A i, j \in 1..Len(s) : i < j => f[i] < f[j]

\* C15: Diff of two sequences of identifier-bearing elements returns the
\* same Changelog in every run, with the keys in order of first occurrence:
\* those of the left in left order, then those only the right has.
C15_DeterministicKeyOrder ==
    (pc = "diffed" /\ IsIdSlice(a) /\ IsIdSlice(b)) =>
        /\ \A o \in KeyOrders : Diff(mem, o, a, b).cl = cl
        /\ IsSubSeqOf(ChangedKeys(cl, <<>>), FirstKeys(a.e \o b.e, <<>>))

\* ---- C16
\* C16: the path of a Change reads, when Diff returns, as it read when the
\* Change was appended to the Changelog.
C16_PathsAreStable ==
    pc \in {"diffed", "valued", "differ"} =>
        \A j \in 1..Len(cl) : cl[j].path = cl[j].p0

\* ---- C17
\* pattern matches path position by position; a path may be longer
Matches(pattern, path) ==
    /\ Len(path) >= Len(pattern)
    /\ \A i \in 1..Len(pattern) : pattern[i] = AnySegment \/ pattern[i] = path[i]

Matching(changes, pattern) == SelectSeq(changes, LAMBDA c : Matches(pattern, c.path))
NotMatching(changes, pattern) == SelectSeq(changes, LAMBDA c : ~Matches(pattern, c.path))

\* C17: Filter returns the Changes whose path matches the pattern, in
\* their order, and FilterOut the Changes Filter leaves out, in their
\* order; neither changes the Changelog it is called on, and together the
\* two results hold every Change of it once.
C17_FilterPartitions ==
    [][(pc = "diffed" /\ pc' \in {"filtered", "filteredout"}) =>
          /\ cl' = cl
          /\ pc' = "filtered" => ncl' = Matching(cl, arg')
          /\ pc' = "filteredout" => ncl' = NotMatching(cl, arg')
          /\ Len(Filter(cl, arg')) + Len(FilterOut(cl, arg')) = Len(cl)
          /\ \A j \in 1..Len(cl) :
                \/ /\ \E n \in 1..Len(Filter(cl, arg')) : Filter(cl, arg')[n] = cl[j]
                   /\ Matches(arg', cl[j].path)
                \/ /\ \E n \in 1..Len(FilterOut(cl, arg')) : FilterOut(cl, arg')[n] = cl[j]
                   /\ ~Matches(arg', cl[j].path)]_vars

C17_Witness ==
    /\ pc = "filtered" /\ Len(cl) = 2 /\ arg = <<AnySegment, "1">>
    /\ cl[1].path # cl[2].path
    /\ Len(ncl) = 1 /\ ncl[1] = cl[2]
    /\ FilterOut(cl, arg) = <<cl[1]>>

\* ---- C18
\* the leaves of v that differ from the zero value, with their paths, in
\* the order of the fields; o is the order in which maps are iterated
RECURSIVE Leaves(_, _, _)
RECURSIVE FieldLeaves(_, _, _, _, _)
Leaves(o, path, v) ==
    CASE v.k \in {"int", "string", "bool"} ->
           IF v = Zero(v) THEN <<>> ELSE <<[path |-> path, v |-> v]>>
      [] v.k = "ptr" -> IF v.p = 0 THEN <<>> ELSE <<[path |-> path, v |-> v]>>
      [] v.k = "slice" ->
           [i \in 1..Len(v.e) |-> [path |-> path \o <<Itoa(i - 1)>>, v |-> v.e[i]]]
      [] v.k = "map" ->
           LET ks == SelectSeq(o, LAMBDA key : v.m[key.s] # Absent)
           IN [i \in 1..Len(ks) |-> [path |-> path \o <<ks[i].s>>, v |-> v.m[ks[i].s]]]
      [] v.k = "struct" -> FieldLeaves(o, path, v, 1, FALSE)
      [] OTHER -> <<>>

\* top: the fields are those of the value handed to StructValues, of which
\* only the ones named "-" are left out
FieldLeaves(o, path, s, i, top) ==
    IF i > Len(s.f) THEN <<>>
    ELSE (IF s.f[i].tag = "-" \/ (~top /\ Excluded(s.f[i])) THEN <<>>
          ELSE Leaves(o, path \o <<s.f[i].tag>>, s.f[i].v))
         \o FieldLeaves(o, path, s, i + 1, top)

Itemized(t, leaves) ==
    [n \in 1..Len(leaves) |->
       [type |-> t, path |-> leaves[n].path,
        from |-> IF t = DELETE THEN leaves[n].v ELSE Nil,
        to |-> IF t = CREATE THEN leaves[n].v ELSE Nil]]

\* C18: StructValues(CREATE, path, s) returns, in field order, one CREATE
\* per non-zero leaf of the fields of s not named "-", at path + the path
\* of the leaf, with from nil and to the leaf; StructValues(DELETE, ...)
\* the same with type DELETE, from the leaf and to nil; any other change
\* type gives the invalid change type error and no Change.
C18_StructValuesItemizes ==
    (pc = "valued" /\ a.k = "struct") =>
        IF arg.t \in {CREATE, DELETE}
        THEN /\ err = ErrNil
             /\ ShownLog(cl) = Itemized(arg.t, FieldLeaves(ord, arg.path, a, 1, TRUE))
        ELSE err = ErrInvalidChangeType /\ cl = <<>>

\* ---- C20
Scalars == {"int", "string", "bool"}

\* C20: a Changelog applied a second time to the target the first
\* application left: when its Changes are UPDATEs of scalar fields or of
\* map keys the target stays as the first application left it; when they
\* are CREATEs on a sequence whose field allows creation the second
\* application appends the created values once more.
C20_IdempotentUpdatesOnly ==
    (pc = "repatched" /\ byRef) =>
        /\ (\A j \in 1..Len(cl) :
               cl[j].type = UPDATE /\ cl[j].from.k \in Scalars /\ cl[j].to.k \in Scalars)
           => target = Patch(cl, tgt0, byRef).tv
        /\ (/\ cl # <<>> /\ a.k = "struct" /\ a.t = "W" /\ IsIntSlice(Core(a))
            /\ \A j \in 1..Len(cl) : cl[j].type = CREATE)
           => /\ target # Patch(cl, tgt0, byRef).tv
              /\ Core(target).e = Core(Patch(cl, tgt0, byRef).tv).e
                                    \o [j \in 1..Len(cl) |-> cl[j].to]
              /\ Core(target).e = Core(tgt0).e \o [j \in 1..Len(cl) |-> cl[j].to]
                                    \o [j \in 1..Len(cl) |-> cl[j].to]

C20_Witness ==
    /\ pc = "repatched" /\ byRef /\ tgt0 = a
    /\ a.k = "struct" /\ a.t = "W" /\ IsIntSlice(Core(a))
    /\ Len(cl) = 1 /\ cl[1].type = CREATE
    /\ Len(Core(a).e) = 1 /\ Len(Core(target).e) = 3
    /\ Core(target).e[2] = Core(target).e[3]
    /\ \A j \in 1..Len(pl) : FlagCreated \in pl[j].flags

C20_WitnessUpdate ==
    /\ pc = "repatched" /\ byRef /\ tgt0 = a /\ a # b
    /\ a.k = "struct" /\ a.t = "W" /\ IsIntMap(Core(a))
    /\ Len(cl) = 2 /\ cl[1].type = UPDATE /\ cl[2].type = UPDATE
    /\ target = b

\* ---- C21
\* one iteration of the loop of Patch on a target passed by reference: the
\* Change is cl[Len(pl')], its entry pl'[Len(pl')]
IsPatchStep == pc = "patching" /\ pc' = "patching" /\ Len(pl') = Len(pl) + 1 /\ byRef

\* a record of one field, and a path through that field to one more segment
OneField(v) == v.k = "struct" /\ Len(v.f) = 1
FieldVal(v) == v.f[1].v
Omits(v) == "omitunequal" \in {v.f[1].o[k] : k \in 1..Len(v.f[1].o)}
AllowsCreate(v) == "create" \in {v.f[1].o[k] : k \in 1..Len(v.f[1].o)}

\* the Change addresses an index of the sequence in the field of tv
OnSequence(c, tv) ==
    /\ OneField(tv) /\ FieldVal(tv).k = "slice"
    /\ Len(c.path) = 2 /\ c.path[1] = tv.f[1].tag /\ AtoiOk(c.path[2])

\* t is s with one element equal to v taken out
RemovedOne(s, t, v) ==
    /\ Len(t) = Len(s) - 1
    /\ \A x \in Ints : Count(t, x) = Count(s, x) - (IF x = v THEN 1 ELSE 0)

\* C21: a DELETE on a sequence deletes the element at the index of the
\* Change when it equals from; otherwise, without omit-if-unequal, it
\* deletes an element equal to from when the sequence holds one; in every
\* other case the entry is ignored with an error and the sequence stays.
C21_SequenceDelete ==
    [][IsPatchStep =>
         LET c == cl[Len(pl')]
             e == pl'[Len(pl')]
         IN (c.type = DELETE /\ c.from \in Ints /\ OnSequence(c, target)) =>
               LET s == FieldVal(target).e
                   t == FieldVal(target').e
                   i == Atoi(c.path[2]) + 1
               IN IF \/ (i <= Len(s) /\ s[i] = c.from)
                     \/ (~Omits(target) /\ \E j \in 1..Len(s) : s[j] = c.from)
                  THEN FlagDeleted \in e.flags /\ RemovedOne(s, t, c.from)
                  ELSE FlagIgnored \in e.flags /\ e.errors # ErrNil /\ t = s]_vars

\* ---- C22
\* C22: an UPDATE or CREATE on a sequence overwrites with to the element
\* at the index of the Change when it equals from, or else the element
\* equal to from that the scan finds, and no other, and the length stays;
\* when there is none, to is appended if the Change is a CREATE and the
\* field allows creation, and otherwise the entry is ignored with an error
\* and the sequence stays.
C22_SequenceUpdate ==
    [][IsPatchStep =>
         LET c == cl[Len(pl')]
             e == pl'[Len(pl')]
         IN (c.type \in {UPDATE, CREATE} /\ c.to \in Ints /\ OnSequence(c, target)) =>
               LET s == FieldVal(target).e
                   t == FieldVal(target').e
                   i == Atoi(c.path[2]) + 1
                   atIndex == i <= Len(s) /\ s[i] = c.from
               IN IF atIndex \/ (~Omits(target) /\ \E j \in 1..Len(s) : s[j] = c.from)
                  THEN /\ FlagUpdated \in e.flags
                       /\ \E j \in 1..Len(s) :
                             /\ s[j] = c.from
                             /\ atIndex => j = i
                             /\ t = [s EXCEPT ![j] = c.to]
                  ELSE IF c.type = CREATE /\ AllowsCreate(target)
                  THEN FlagCreated \in e.flags /\ t = Append(s, c.to)
                  ELSE FlagIgnored \in e.flags /\ e.errors # ErrNil /\ t = s]_vars

\* ---- C23
\* the path segment names a field of the record that Patch may write
NamesWritableField(tv, seg) ==
    \E i \in 1..Len(tv.f) :
       /\ ~Excluded(tv.f[i])
       /\ (tv.f[i].tag = seg \/ tv.f[i].n = seg)

\* C23: a Change whose path names a field that the target record excludes,
\* marks immutable or does not have leaves every field of the target as it
\* was, whatever its kind, and its entry is flagged neither applied nor
\* deleted.
C23_UnwritableFieldUntouched ==
    [][IsPatchStep =>
         LET c == cl[Len(pl')]
             e == pl'[Len(pl')]
         IN (target.k = "struct" /\ c.path # <<>> /\ ~NamesWritableField(target, c.path[1])) =>
               /\ target' = target
               /\ e.flags \cap {FlagApplied, FlagDeleted} = {}]_vars

\* ---- C24
\* the Change addresses a key of the map in the field of tv
OnMap(c, tv) ==
    /\ OneField(tv) /\ FieldVal(tv).k = "map"
    /\ Len(c.path) = 2 /\ c.path[1] = tv.f[1].tag /\ c.path[2] \in MapKeys

\* the value a map holds under a key, Absent when it holds none
Stored(m, key) == IF m.isnil THEN Absent ELSE m.m[key]

\* C24: a DELETE on a map is ignored, and the map stays, when
\* omit-if-unequal is set and the value under the key of the Change differs
\* from from; it is ignored when the map is nil; in every other case that
\* key and no other is removed and the entry is flagged deleted.
C24_MapDelete ==
    [][IsPatchStep =>
         LET c == cl[Len(pl')]
             e == pl'[Len(pl')]
         IN (c.type = DELETE /\ OnMap(c, target)) =>
               LET m == FieldVal(target)
                   n == FieldVal(target')
                   key == c.path[2]
               IN IF (Omits(target) /\ Stored(m, key) # c.from) \/ m.isnil
                  THEN FlagIgnored \in e.flags /\ n = m
                  ELSE /\ FlagDeleted \in e.flags
                       /\ ~n.isnil
                       /\ n.m[key] = Absent
                       /\ \A other \in MapKeys \ {key} : n.m[other] = m.m[other]]_vars

\* ---- C25
\* C25: a DELETE that succeeds on a sequence of length n copies the last
\* element over the one it deletes and cuts the sequence to n - 1: the
\* former last element sits at the index of the deleted one and every
\* other element keeps its index.
C25_DeleteSwapsWithLast ==
    [][IsPatchStep =>
         LET c == cl[Len(pl')]
             e == pl'[Len(pl')]
         IN (c.type = DELETE /\ OnSequence(c, target) /\ FlagDeleted \in e.flags) =>
               LET s == FieldVal(target).e
                   t == FieldVal(target').e
                   n == Len(s)
                   i == Atoi(c.path[2]) + 1
               IN /\ n > 0 /\ Len(t) = n - 1
                  /\ \E h \in 1..n :
                        /\ s[h] = c.from
                        /\ (i <= n /\ s[i] = c.from) => h = i
                        /\ \A j \in 1..(n - 1) : t[j] = IF j = h THEN s[n] ELSE s[j]]_vars

C25_Witness ==
    /\ pc = "patched" /\ byRef /\ Len(cl) = 1 /\ Len(pl) = 1
    /\ cl[1].type = DELETE /\ OnSequence(cl[1], tgt0) /\ cl[1].path[2] = "0"
    /\ FlagDeleted \in pl[1].flags
    /\ FieldVal(tgt0).e = <<IntV(1), IntV(2), IntV(1)>>
    /\ FieldVal(target).e = <<IntV(1), IntV(2)>>

\* ---- C26
\* the field of the record tv that a path of one segment addresses
FieldIndex(tv, seg) ==
    CHOOSE i \in 1..Len(tv.f) :
       /\ ~Excluded(tv.f[i]) /\ (tv.f[i].tag = seg \/ tv.f[i].n = seg)
       /\ \A h \in (i + 1)..Len(tv.f) :
             ~(~Excluded(tv.f[h]) /\ (tv.f[h].tag = seg \/ tv.f[h].n = seg))

\* the Change addresses a scalar field or a record field of tv
OnField(c, tv) ==
    /\ tv.k = "struct" /\ Len(c.path) = 1 /\ NamesWritableField(tv, c.path[1])
    /\ tv.f[FieldIndex(tv, c.path[1])].v.k \in Scalars \cup {"struct"}

\* C26: an UPDATE or CREATE on a scalar field or a record field is ignored
\* with an error, and the field keeps its value, when omit-if-unequal is
\* set and the field differs from from; in every other case the field is
\* overwritten with to, whatever it held, and the entry is flagged updated.
C26_FieldUpdate ==
    [][IsPatchStep =>
         LET c == cl[Len(pl')]
             e == pl'[Len(pl')]
         IN (c.type \in {UPDATE, CREATE} /\ OnField(c, target)) =>
               LET i == FieldIndex(target, c.path[1])
                   cur == target.f[i].v
                   omit == \E k \in 1..Len(target.f[i].o) : target.f[i].o[k] = "omitunequal"
               IN IF omit /\ cur # c.from
                  THEN /\ FlagIgnored \in e.flags /\ e.errors # ErrNil
                       /\ target' = target
                  ELSE /\ FlagUpdated \in e.flags
                       /\ target' = [target EXCEPT !.f[i].v = c.to]]_vars

\* under omit-if-unequal: a field that differs from from is kept, a field
\* that equals it is overwritten
C26_Witness ==
    /\ pc = "patched" /\ byRef /\ Len(cl) = 1 /\ Len(pl) = 1
    /\ cl[1].type = UPDATE /\ OnField(cl[1], tgt0) /\ Omits(tgt0)
    /\ cl[1].from # cl[1].to
    /\ FieldVal(tgt0) = cl[1].from /\ FieldVal(target) = cl[1].to
    /\ FlagUpdated \in pl[1].flags

C26_WitnessIgnored ==
    /\ pc = "patched" /\ byRef /\ Len(cl) = 1 /\ Len(pl) = 1
    /\ cl[1].type = UPDATE /\ OnField(cl[1], tgt0) /\ Omits(tgt0)
    /\ FieldVal(tgt0) # cl[1].from /\ target = tgt0
    /\ FlagIgnored \in pl[1].flags

\* ---- C27
\* the i-th pair compared is a pair of non-nil pointers
PointerPair(i) ==
    /\ trace[i].a = "ptr" /\ trace[i].b = "ptr"
    /\ trace[i].pa # 0 /\ trace[i].pb # 0

\* diffPtr followed the i-th pair: the next pair compared is the pair of
\* the records the two pointers refer to, at the same path
Followed(i) ==
    /\ PointerPair(i)
    /\ i < Len(trace)
    /\ trace[i + 1].path = trace[i].path
    /\ trace[i + 1].a = "struct" /\ trace[i + 1].b = "struct"

\* the i-th and the h-th pair hold the same two addresses, in either order
SamePair(i, h) ==
    \/ (trace[i].pa = trace[h].pa /\ trace[i].pb = trace[h].pb)
    \/ (trace[i].pa = trace[h].pb /\ trace[i].pb = trace[h].pa)

IsAnyPatchStep == pc = "patching" /\ pc' = "patching" /\ Len(pl') = Len(pl) + 1

\* C29: when the entry of a Change is flagged ignored or invalid-target,
\* the target is as it was before that Change was processed.
C29_IgnoredLeavesTarget ==
    [][IsAnyPatchStep =>
         (pl'[Len(pl')].flags \cap {FlagIgnored, FlagInvalidTarget} # {} => target' = target)]_vars

\* C30: an entry has at most one of the flags created, updated and
\* deleted, and none of them next to ignored or invalid-target; a DELETE
\* is never flagged created or updated, an UPDATE or CREATE never deleted.
C30_OutcomeFlagsExclusive ==
    \A j \in 1..Len(pl) :
       /\ Cardinality(pl[j].flags \cap {FlagCreated, FlagUpdated, FlagDeleted}) <= 1
       /\ pl[j].flags \cap {FlagIgnored, FlagInvalidTarget} # {}
             => pl[j].flags \cap {FlagCreated, FlagUpdated, FlagDeleted} = {}
       /\ (pc \in {"patching", "patched", "repatched"} /\ j <= Len(cl)) =>
             /\ cl[j].type = DELETE => pl[j].flags \cap {FlagCreated, FlagUpdated} = {}
             /\ cl[j].type \in {UPDATE, CREATE} => FlagDeleted \notin pl[j].flags

\* the second Change is ignored after the first one was applied: the
\* target is the one the first Change left
C29_Witness ==
    /\ pc = "patched" /\ byRef /\ Len(pl) = 2
    /\ FlagDeleted \in pl[1].flags /\ FlagIgnored \in pl[2].flags
    /\ target # tgt0
    /\ target = Patch(SubSeq(cl, 1, 1), tgt0, byRef).tv

\* a Change that faults on a target passed by reference
C29_WitnessInvalidTarget ==
    /\ pc = "patched" /\ byRef /\ Len(pl) = 1
    /\ FlagInvalidTarget \in pl[1].flags /\ target = tgt0

C30_Witness ==
    /\ pc = "patched" /\ byRef /\ Len(pl) = 2
    /\ cl[1].type = DELETE /\ pl[1].flags \cap {FlagCreated, FlagUpdated, FlagDeleted} = {FlagDeleted}
    /\ cl[2].type = CREATE /\ pl[2].flags \cap {FlagCreated, FlagUpdated, FlagDeleted} = {FlagCreated}

====
